---- MODULE Spec2Model ----
(***************************************************************************)
(* Model of the market-data access pipeline of the Energy Trading          *)
(* Simulator backend:                                                      *)
(*   simple_cache.py     SimpleCache, cached_api_call                      *)
(*   request_queue.py    RateLimitedQueue, queued_api_call, clear_queue    *)
(*   keypool_manager.py  ApiKeyPool, api_request_with_rotation             *)
(*   services.py         the decorated data endpoints                      *)
(*                                                                         *)
(* Time is the integer variable now, counted in half seconds (so that the  *)
(* queue interval of 2.5 s is a whole number).  Each specification lets    *)
(* the clock advance in the step that suits its component.                 *)
(***************************************************************************)
EXTENDS Integers, Sequences, FiniteSets, TLC

----------------------------------------------------------------------------
(* Bounds of the model                                                     *)

MaxCallers == 2
MaxCacheMinutes == 5
MaxClears == 1
MaxWorkers == 2
MaxCreds == 2
MaxResets == 1
MaxSelects == 3
MaxPenalties == 2
MaxPoolHalfMinutes == 4
MaxRequests == 2
MaxAdminOps == 1
MaxQueueIntervals == 24
MaxPipeSeconds == 10
MaxCalls == 2
MaxRetrySeconds == 130
MaxArgs == 2
MaxKwargs == 2

----------------------------------------------------------------------------
(* Program constants                                                       *)

\* SimpleCache(default_ttl_minutes=5)
default_ttl_minutes == 5
\* self.default_ttl = default_ttl_minutes * 60 (seconds), here in half seconds
default_ttl == default_ttl_minutes * 60 * 2
\* self.cooldown_minutes = 1.5, counted here in half minutes
cooldown_half_minutes == 3
HalfMinuteTicks == 30 * 2
cooldown == cooldown_half_minutes * HalfMinuteTicks
\* RateLimitedQueue(interval_seconds=2.5)
interval == 5
\* request.result_event.wait(timeout=60)
wait_timeout == 120
\* self.worker_thread.join(timeout=5)
join_timeout == 10
\* api_request_with_rotation(API_POOL, max_retries=3)
max_retries == 3

----------------------------------------------------------------------------
(* Value domains                                                           *)

Callers == 1..MaxCallers
\* the threads that can run a wrapped function: callers and queue workers
Workers == (MaxCallers + 1)..(MaxCallers + MaxWorkers)
Procs == Callers \cup Workers
\* the data endpoints of services.py; a cache key is the fingerprint of the
\* function name and its arguments, here the position of the endpoint
Endpoints == <<"get_day_ahead_latest", "get_day_ahead_hour", "get_rt_latest",
               "get_rt_last24h", "get_rt_range", "get_day_ahead_by_date",
               "get_pjm_load_actual", "get_pjm_load_forecast">>
Keys == DOMAIN Endpoints
\* the callers of the cache specifications all ask for one fingerprint
CacheKeys == {1}
\* results the wrapped function can return; None is Python's None
Values == {1, 2}
None == 0
NoEntry == <<>>
MinuteTicks == 60 * 2
\* the credentials of the configured list, in pool order
Creds == 1..MaxCreds
\* the ApiKeyPool objects: the one built at import and one per reset
PoolIds == 1..(MaxResets + 1)
Strategies == {"round_robin", "random", "least_used"}
\* retry_after as mark_rate_limited receives it: None or whole minutes
NoHint == -1
RetryAfter == {NoHint, 0, 2}

VARIABLES
    now,        \* time.time() / datetime.now(), in half seconds
    \* ---- SimpleCache (API_CACHE)
    cache,      \* self.cache: key -> <<data, timestamp>> or NoEntry
    locks,      \* self.locks: whether the dict holds a lock object for the key
    gen,        \* number of clear() calls so far: names the lock objects,
                \* the lock object of key k created after g clears is <<k, g>>
    held,       \* the lock objects currently held
    \* ---- one cached_api_call.wrapper activation per thread
    cpc,        \* position in wrapper
    ckey,       \* cache_key
    cget,       \* (cached_data, is_fresh) of the latest API_CACHE.get, with
                \* what that get found and left in the cache
    clk,        \* key_lock (generation of the lock object obtained)
    cres,       \* result of func
    cstart,     \* time at which func was invoked
    cstale,     \* data of the expired entry this call came across (or None)
    cret,       \* outcome of the caller's latest call
    \* ---- observations of func invocations, per key
    anyStart,   \* start time of the latest invocation of func (-1: none)
    okStart,    \* start time of the latest invocation that returned (-1: none)
    \* ---- ApiKeyPool objects
    pools,      \* pool id -> [ks (keys_stats), current_index, strategy]
    API_POOL,   \* services.API_POOL: the id of the pool the global names
    plock,      \* pool id -> the thread holding self.lock (0: free)
    \* ---- one pool call per thread
    ppc,        \* "idle", "sleep" (in _wait_for_cooldown), "done"
    ppool,      \* the pool the sleeping get_next_key is called on
    pwake,      \* time at which time.sleep(wait_time) ends
    \* ---- observations of the pool, per pool and credential
    selLog,     \* the credentials get_next_key returned, in order, while no
                \* credential of the pool was rate limited or deactivated
    penalties,  \* number of mark_rate_limited and deactivate_key calls
    window,     \* end of the latest hinted rate-limit window (-1: none)
    \* ---- RateLimitedQueue (REQUEST_QUEUE)
    running,        \* self.running
    worker_thread,  \* self.worker_thread (NoThread: None)
    queue,          \* self.queue: the requests waiting, oldest first
    reqs,           \* the QueuedRequest objects created so far
    qstats,         \* self.stats
    \* ---- one queue operation per caller thread
    qpc,        \* position in queued_api_call.wrapper, enqueue_request,
                \* start, stop or clear_queue
    qop,        \* the operation: "call", "start", "stop", "clear"
    qfn,        \* func of the call
    qreq,       \* request
    qjoin,      \* the thread stop() joins
    qdl,        \* end of the wait on result_event or of the join
    qret,       \* outcome of the thread's latest operation
    adminOps,   \* number of start(), stop() and clear_queue() calls
    \* ---- the worker threads (_process_queue)
    wpc,        \* position in _process_queue ("unborn": not created)
    wreq,       \* request
    wstart,     \* start_time
    wwake,      \* end of time.sleep(sleep_time)
    lastStart,  \* start time of the latest execution (observation)
    \* ---- one api_request_with_rotation wrapper activation per thread
    rpc,        \* position in wrapper
    rattempt,   \* attempt
    rkey,       \* api_key
    rlast,      \* last_exception (its kind)
    rout,       \* what the raw fetch of this attempt ended with
    rwake,      \* end of the backoff sleep
    rret,       \* outcome of the thread's latest call of the wrapper
    rseen,      \* services.API_POOL as it was when the thread entered the
                \* wrapper (observation)
    rpicks,     \* the credentials the thread's current call has obtained
                \* from the pool, each followed by one invocation of the
                \* wrapped function (observation)
    calls,      \* number of endpoint calls made by the callers
    sel,        \* per thread, its place inside one get_next_key call that
                \* is followed statement by statement, with the locals of
                \* the call
    fp          \* the calls of cached functions whose cache keys are
                \* compared: how many were made, their arguments and the
                \* cache_key the wrapper built for each

cvars == <<cache, locks, gen, held, cpc, ckey, cget, clk, cres, cstart,
           cstale, cret, anyStart, okStart>>
pvars == <<pools, API_POOL, plock, ppc, ppool, pwake, selLog,
           penalties, window>>
qvars == <<running, worker_thread, queue, reqs, qstats, qpc, qop, qfn, qreq,
           qjoin, qdl, qret, adminOps, wpc, wreq, wstart, wwake, lastStart>>
rvars == <<rpc, rattempt, rkey, rlast, rout, rwake, rret, rseen, rpicks>>
vars == <<now, cvars, pvars, qvars, rvars, calls, sel, fp>>
notCache == <<pvars, qvars, rvars, calls, sel, fp>>
notPool == <<cvars, qvars, rvars, calls, sel, fp>>
notQueue == <<cvars, pvars, rvars, calls, sel, fp>>

----------------------------------------------------------------------------
(* SimpleCache._get_cache_key.  A str is the sequence of its code points,  *)
(* so that Python's comparison of strings is the lexicographic one.        *)

\* "|" and "="
Bar == <<124>>
Equals == <<61>>
\* func.__name__ of the wrapped functions: "f", "g"
FuncNames == {<<102>>, <<103>>}
\* positional arguments: "a", "b", "a|b", "k=a"
ArgValues == {<<97>>, <<98>>, <<97, 124, 98>>, <<107, 61, 97>>}
\* keyword names "k", "m" and keyword values "a", "b"
KwNames == {<<107>>, <<109>>}
KwValues == {<<97>>, <<98>>}

SeqsUpTo(S, n) == UNION {[1..m -> S] : m \in 0..n}

\* **kwargs: the (name, value) items in the order the caller wrote them; a
\* name occurs once
KwargLists ==
    {kw \in SeqsUpTo(KwNames \X KwValues, MaxKwargs) :
        \A i, j \in 1..Len(kw) : i # j => kw[i][1] # kw[j][1]}

\* the calls of a cached function: wrapper(*args, **kwargs) of func
CallInputs ==
    [name : FuncNames, args : SeqsUpTo(ArgValues, MaxArgs), kwargs : KwargLists]

\* s < t for two str
RECURSIVE StrLess(_, _)
StrLess(s, t) ==
    IF s = <<>> THEN t # <<>>
    ELSE IF t = <<>> THEN FALSE
    ELSE IF Head(s) # Head(t) THEN Head(s) < Head(t)
    ELSE StrLess(Tail(s), Tail(t))

\* x < y for two (name, value) tuples
ItemLess(x, y) ==
    \/ StrLess(x[1], y[1])
    \/ x[1] = y[1] /\ StrLess(x[2], y[2])

RECURSIVE InsertItem(_, _)
InsertItem(x, s) ==
    IF s = <<>> THEN <<x>>
    ELSE IF ItemLess(x, Head(s)) THEN <<x>> \o s
    ELSE <<Head(s)>> \o InsertItem(x, Tail(s))

\* the items left in the order of the call
ItemsInCallOrder(kw) == kw

\* _get_cache_key, line 16: sorted(kwargs.items())
RECURSIVE SortedItems(_)
SortedItems(kw) ==
    IF kw = <<>> THEN <<>>
    ELSE InsertItem(Head(kw), SortedItems(Tail(kw)))

\* _get_cache_key, lines 15-16: key_parts, str(arg) for each positional
\* argument (func.__name__ is the first of them, line 76), then "k=v" for
\* each keyword argument
KeyParts(c) ==
    <<c.name>> \o c.args
    \o [i \in 1..Len(c.kwargs) |->
          SortedItems(c.kwargs)[i][1] \o Equals \o SortedItems(c.kwargs)[i][2]]

\* sep.join(parts)
RECURSIVE Join(_, _)
Join(parts, sep) ==
    IF parts = <<>> THEN <<>>
    ELSE IF Len(parts) = 1 THEN parts[1]
    ELSE parts[1] \o sep \o Join(Tail(parts), sep)

\* _get_cache_key, line 17: "|".join(key_parts)
GetCacheKey(c) == Join(KeyParts(c), Bar)

NoCall == [name |-> <<>>, args |-> <<>>, kwargs |-> <<>>]

FpInit == fp = [n |-> 0, call |-> <<NoCall, NoCall>>, key |-> <<<<>>, <<>>>>]

\* wrapper, line 76: cache_key = API_CACHE._get_cache_key(func.__name__,
\* *args, **kwargs), for the first two calls
KeyedCall(c) ==
    /\ fp.n < 2
    /\ fp' = [n |-> fp.n + 1,
              call |-> [fp.call EXCEPT ![fp.n + 1] = c],
              key |-> [fp.key EXCEPT ![fp.n + 1] = GetCacheKey(c)]]
    /\ UNCHANGED <<now, cvars, pvars, qvars, rvars, calls, sel>>

----------------------------------------------------------------------------
(* SimpleCache                                                             *)

\* a comparison turned round: an entry counts as fresh once its TTL is over
CacheFreshInverted(k) ==
    /\ cache[k] # NoEntry
    /\ now - cache[k][2] > default_ttl

\* get: key in self.cache and time.time() - timestamp < self.default_ttl
CacheFresh(k) ==
    /\ cache[k] # NoEntry
    /\ now - cache[k][2] < default_ttl

\* get: key in self.cache but the TTL has elapsed
CacheExpired(k) ==
    /\ cache[k] # NoEntry
    /\ ~(now - cache[k][2] < default_ttl)

\* a get that hands out None whatever is stored
CacheGetDataNone(k) == None

\* get: the data returned: the stored data when fresh, otherwise None
CacheGetData(k) ==
    IF CacheFresh(k) THEN cache[k][1] ELSE None

\* get: the cache after the call: an expired entry is deleted
CacheAfterGet(k) ==
    IF CacheExpired(k) THEN [cache EXCEPT ![k] = NoEntry] ELSE cache

\* the whole of get(key) as the record the wrapper keeps: (data, is_fresh),
\* with the data the call found under the key and whether the entry is
\* still in the cache when the call returns
CacheGet(k) ==
    [data  |-> CacheGetData(k),
     fresh |-> CacheFresh(k),
     found |-> IF cache[k] = NoEntry THEN None ELSE cache[k][1],
     kept  |-> CacheAfterGet(k)[k] # NoEntry]

\* set: self.cache[key] = (data, time.time())
CacheSet(k, v) == [cache EXCEPT ![k] = <<v, now>>]

\* get_lock: the lock object of the key, created when the dict has none
LocksAfterGetLock(k) == [locks EXCEPT ![k] = TRUE]

\* get_lock: the lock object handed out for key k
LockObject(k) == <<k, gen>>

NoGet == [data |-> None, fresh |-> FALSE, found |-> None, kept |-> FALSE]
NoRet == [tag |-> "none", val |-> None]
NoLock == <<>>

CacheInit ==
    /\ cache = [k \in Keys |-> NoEntry]
    /\ locks = [k \in Keys |-> FALSE]
    /\ gen = 0
    /\ held = {}
    /\ cpc = [p \in Procs |-> "idle"]
    /\ ckey = [p \in Procs |-> 1]
    /\ cget = [p \in Procs |-> NoGet]
    /\ clk = [p \in Procs |-> NoLock]
    /\ cres = [p \in Procs |-> None]
    /\ cstart = [p \in Procs |-> 0]
    /\ cstale = [p \in Procs |-> None]
    /\ cret = [p \in Procs |-> NoRet]
    /\ anyStart = [k \in Keys |-> -1]
    /\ okStart = [k \in Keys |-> -1]

\* the wrapper returns (or raises) with outcome r, leaving the with block
\* when it is inside it; its locals are gone
WrapperReturn(p, r) ==
    /\ cpc' = [cpc EXCEPT ![p] = "done"]
    /\ cret' = [cret EXCEPT ![p] = r]
    /\ held' = held \ {clk[p]}
    /\ ckey' = [ckey EXCEPT ![p] = 1]
    /\ cget' = [cget EXCEPT ![p] = NoGet]
    /\ clk' = [clk EXCEPT ![p] = NoLock]
    /\ cres' = [cres EXCEPT ![p] = None]
    /\ cstart' = [cstart EXCEPT ![p] = 0]

\* wrapper, lines 76-82: build the key, first get, return on a fresh hit
WrapperCall(p, k) ==
    /\ cpc[p] \in {"idle", "done"}
    /\ LET g == CacheGet(k) IN
       /\ cache' = CacheAfterGet(k)
       /\ cstale' = [cstale EXCEPT ![p] = IF g.fresh THEN None ELSE g.found]
       /\ IF g.fresh
          THEN WrapperReturn(p, [tag |-> "hit", val |-> g.data])
          ELSE /\ cpc' = [cpc EXCEPT ![p] = "get_lock"]
               /\ cret' = [cret EXCEPT ![p] = NoRet]
               /\ ckey' = [ckey EXCEPT ![p] = k]
               /\ cget' = [cget EXCEPT ![p] = g]
               /\ UNCHANGED <<held, clk, cres, cstart>>
    /\ UNCHANGED <<locks, gen, anyStart, okStart>>

\* wrapper, line 85: key_lock = API_CACHE.get_lock(cache_key)
WrapperGetLock(p) ==
    /\ cpc[p] = "get_lock"
    /\ locks' = LocksAfterGetLock(ckey[p])
    /\ clk' = [clk EXCEPT ![p] = LockObject(ckey[p])]
    /\ cpc' = [cpc EXCEPT ![p] = "acquire"]
    /\ UNCHANGED <<cache, gen, held, ckey, cget, cres, cstart, cstale,
                   cret, anyStart, okStart>>

\* wrapper, line 87: with key_lock (blocks while the lock object is held)
WrapperAcquire(p) ==
    /\ cpc[p] = "acquire"
    /\ clk[p] \notin held
    /\ held' = held \cup {clk[p]}
    /\ cpc' = [cpc EXCEPT ![p] = "recheck"]
    /\ UNCHANGED <<cache, locks, gen, ckey, cget, clk, cres, cstart,
                   cstale, cret, anyStart, okStart>>

\* a wrapper without the second get: func is invoked once the lock is held
WrapperRecheckSkipped(p) ==
    /\ cpc[p] = "recheck"
    /\ cpc' = [cpc EXCEPT ![p] = "func"]
    /\ cget' = [cget EXCEPT ![p] = CacheGet(ckey[p])]
    /\ cstart' = [cstart EXCEPT ![p] = now]
    /\ anyStart' = [anyStart EXCEPT ![ckey[p]] = now]
    /\ UNCHANGED <<cache, cstale, cret, held, ckey, clk, cres, locks, gen,
                   okStart>>

\* wrapper, lines 89-97: the second get, under the key lock; a fresh entry
\* is returned, otherwise func is invoked
WrapperRecheck(p) ==
    /\ cpc[p] = "recheck"
    /\ LET k == ckey[p]
           g == CacheGet(k) IN
       /\ cache' = CacheAfterGet(k)
       /\ cstale' = [cstale EXCEPT ![p] =
                        IF g.fresh THEN None
                        ELSE IF g.found # None THEN g.found ELSE @]
       /\ IF g.fresh
          THEN /\ WrapperReturn(p, [tag |-> "hit_after_lock", val |-> g.data])
               /\ UNCHANGED anyStart
          ELSE /\ cpc' = [cpc EXCEPT ![p] = "func"]
               /\ cget' = [cget EXCEPT ![p] = g]
               /\ cstart' = [cstart EXCEPT ![p] = now]
               /\ anyStart' = [anyStart EXCEPT ![k] = now]
               /\ UNCHANGED <<cret, held, ckey, clk, cres>>
    /\ UNCHANGED <<locks, gen, okStart>>

\* wrapper, line 97: func returns the value v
WrapperFuncReturns(p, v) ==
    /\ cpc[p] = "func"
    /\ cres' = [cres EXCEPT ![p] = v]
    /\ okStart' = [okStart EXCEPT ![ckey[p]] = cstart[p]]
    /\ cpc' = [cpc EXCEPT ![p] = "set"]
    /\ UNCHANGED <<cache, locks, gen, held, ckey, cget, clk, cstart,
                   cstale, cret, anyStart>>

\* wrapper, lines 99-100: store the result and return it
WrapperStore(p) ==
    /\ cpc[p] = "set"
    /\ cache' = CacheSet(ckey[p], cres[p])
    /\ WrapperReturn(p, [tag |-> "miss", val |-> cres[p]])
    /\ UNCHANGED <<locks, gen, cstale, anyStart, okStart>>

\* wrapper, lines 101-106: the outcome when func raised: cached_data (of
\* the second get) when it is not None, otherwise the error again
FallbackOutcome(p) ==
    IF cget[p].data # None
    THEN [tag |-> "fallback", val |-> cget[p].data]
    ELSE [tag |-> "raise", val |-> None]

\* a wrapper whose error path leaves the with block without releasing the
\* key lock
WrapperFuncRaisesKeepsLock(p) ==
    /\ cpc[p] = "func"
    /\ cpc' = [cpc EXCEPT ![p] = "done"]
    /\ cret' = [cret EXCEPT ![p] = FallbackOutcome(p)]
    /\ ckey' = [ckey EXCEPT ![p] = 1]
    /\ cget' = [cget EXCEPT ![p] = NoGet]
    /\ clk' = [clk EXCEPT ![p] = NoLock]
    /\ cres' = [cres EXCEPT ![p] = None]
    /\ cstart' = [cstart EXCEPT ![p] = 0]
    /\ UNCHANGED <<held, cache, locks, gen, cstale, anyStart, okStart>>

\* a wrapper whose error path stores what it returns
WrapperFuncRaisesStores(p) ==
    /\ cpc[p] = "func"
    /\ cache' = CacheSet(ckey[p], FallbackOutcome(p).val)
    /\ WrapperReturn(p, FallbackOutcome(p))
    /\ UNCHANGED <<locks, gen, cstale, anyStart, okStart>>

\* wrapper, lines 101-106: func raised
WrapperFuncRaises(p) ==
    /\ cpc[p] = "func"
    /\ WrapperReturn(p, FallbackOutcome(p))
    /\ UNCHANGED <<cache, locks, gen, cstale, anyStart, okStart>>

\* clear: self.cache.clear(); self.locks.clear()
ClearEffect ==
    /\ cache' = [k \in Keys |-> NoEntry]
    /\ locks' = [k \in Keys |-> FALSE]
    /\ gen' = gen + 1
    /\ UNCHANGED <<held, cpc, ckey, cget, clk, cres, cstart, cstale,
                   cret, anyStart, okStart>>

----------------------------------------------------------------------------
(* ApiKeyPool                                                              *)

NoTime == -1
Min(S) == CHOOSE x \in S : \A y \in S : x <= y
Max(S) == CHOOSE x \in S : \A y \in S : x >= y

\* ApiKeyStats(key=key), constructed at time t
NewKeyStats(t) ==
    [last_used |-> t, request_count |-> 0, rate_limited_until |-> NoTime,
     consecutive_failures |-> 0, is_active |-> TRUE]

\* ApiKeyPool(api_keys, strategy), constructed at time t
NewPool(strategy, t) ==
    [ks |-> [i \in Creds |-> NewKeyStats(t)],
     current_index |-> 0,
     strategy |-> strategy]

\* _get_available_keys: the rate limit of an active credential has expired
LimitExpired(P, i) ==
    /\ P.ks[i].is_active
    /\ P.ks[i].rate_limited_until # NoTime
    /\ now >= P.ks[i].rate_limited_until

\* the deadline check left out: every active credential is put on the list
AvailableIgnoringLimit(P, i) == P.ks[i].is_active

\* _get_available_keys: credential i is put on the list
Available(P, i) ==
    /\ P.ks[i].is_active
    /\ \/ P.ks[i].rate_limited_until = NoTime
       \/ LimitExpired(P, i)

\* _get_available_keys: the list returned
AvailableKeys(P) == {i \in Creds : Available(P, i)}

\* _get_available_keys: the pool after the pass: expired limits are cleared
\* and their failure counters reset
AfterFilter(P) ==
    [P EXCEPT !.ks = [i \in Creds |->
        IF LimitExpired(P, i)
        THEN [P.ks[i] EXCEPT !.rate_limited_until = NoTime,
                             !.consecutive_failures = 0]
        ELSE P.ks[i]]]

\* _round_robin_selection: the credential at cursor position c
AtCursor(c) == (c % MaxCreds) + 1

\* the cursor increment left out: the credential under the cursor, again
RoundRobinPickStuck(P, A) ==
    [key |-> AtCursor(P.current_index), index |-> P.current_index]

\* the loop over the cursor left out: the first credential of the list is
\* used, the cursor moves on by one
RoundRobinPickFirstOfList(P, A) ==
    [key |-> Min(A), index |-> P.current_index + 1]

\* _round_robin_selection: the first of len(keys_stats) cursor positions
\* that holds an available credential; the cursor ends just past it.  When
\* the loop finds none, available_keys[0] is used.
RoundRobinPick(P, A) ==
    LET hits == {j \in 0..(MaxCreds - 1) : AtCursor(P.current_index + j) \in A}
    IN  IF hits # {}
        THEN [key |-> AtCursor(P.current_index + Min(hits)),
              index |-> P.current_index + Min(hits) + 1]
        ELSE [key |-> Min(A), index |-> P.current_index + MaxCreds]

\* a minimum that keeps the last of the minimal credentials, not the first
LeastUsedPickLast(P, A) ==
    [key |-> Max({i \in A : \A j \in A :
                    P.ks[i].request_count <= P.ks[j].request_count}),
     index |-> P.current_index]

\* _least_used_selection: min(available_keys, key=request_count), the first
\* of the minimal ones in list order
LeastUsedPick(P, A) ==
    [key |-> Min({i \in A : \A j \in A :
                    P.ks[i].request_count <= P.ks[j].request_count}),
     index |-> P.current_index]

\* get_next_key, lines 58-65: what the strategy may pick from the list A
Picks(P, A) ==
    CASE P.strategy = "random" ->
            {[key |-> i, index |-> P.current_index] : i \in A}
      [] P.strategy = "least_used" -> {LeastUsedPick(P, A)}
      [] OTHER -> {RoundRobinPick(P, A)}

\* the selection's side effect: last_used, request_count and the cursor
UseKey(P, pick) ==
    [P EXCEPT !.ks[pick.key].last_used = now,
              !.ks[pick.key].request_count = @ + 1,
              !.current_index = pick.index]

\* _wait_for_cooldown: the credentials with a deadline in the future
CoolingKeys(P) ==
    {i \in Creds : /\ P.ks[i].rate_limited_until # NoTime
                   /\ P.ks[i].rate_limited_until > now}

\* _wait_for_cooldown: wait_time, the time to the earliest deadline
WaitTime(P) ==
    IF CoolingKeys(P) = {} THEN 0
    ELSE Min({P.ks[i].rate_limited_until : i \in CoolingKeys(P)}) - now

\* _wait_for_cooldown: whether time.sleep(wait_time) is called
Sleeps(P) == WaitTime(P) > 0 /\ WaitTime(P) < cooldown

\* mark_rate_limited: cooldown_minutes = retry_after or self.cooldown_minutes
CooldownTicks(m) ==
    IF m = NoHint \/ m = 0 THEN cooldown ELSE m * MinuteTicks

\* mark_rate_limited: the pool after the call
AfterRateLimited(P, i, m) ==
    [P EXCEPT !.ks[i].rate_limited_until = now + CooldownTicks(m),
              !.ks[i].consecutive_failures = @ + 1]

\* a success report that also switches the credential on again
AfterSuccessReactivates(P, i) ==
    [P EXCEPT !.ks[i].consecutive_failures = 0, !.ks[i].is_active = TRUE]

\* mark_success: the pool after the call
AfterSuccess(P, i) == [P EXCEPT !.ks[i].consecutive_failures = 0]

\* deactivate_key: the pool after the call
AfterDeactivate(P, i) == [P EXCEPT !.ks[i].is_active = FALSE]

\* get_stats: the dict returned; available_keys runs the filter pass, and
\* the entries after it are computed on the filtered pool
StatsOf(P) ==
    LET F == AfterFilter(P) IN
    [total_keys |-> MaxCreds,
     active_keys |-> Cardinality({i \in Creds : P.ks[i].is_active}),
     available_keys |-> Cardinality(AvailableKeys(P)),
     rate_limited_keys |-> Cardinality(CoolingKeys(F)),
     keys |-> [i \in Creds |->
        [requests |-> F.ks[i].request_count,
         is_active |-> F.ks[i].is_active,
         rate_limited |-> F.ks[i].rate_limited_until # NoTime,
         failures |-> F.ks[i].consecutive_failures]]]

TotalRequests(P) ==
    LET RECURSIVE sum(_)
        sum(n) == IF n = 0 THEN 0 ELSE P.ks[n].request_count + sum(n - 1)
    IN sum(MaxCreds)

\* what get_next_key can end with, besides a credential
Exhausted == 0

\* the pools at import time; st is the strategy of the first one (services.py
\* builds it with "round_robin"), the pools of later resets use the default
PoolInitWith(st) ==
    /\ pools = [x \in PoolIds |-> NewPool(IF x = 1 THEN st ELSE "round_robin", 0)]
    /\ API_POOL = 1
    /\ plock = [x \in PoolIds |-> 0]
    /\ ppc = [p \in Procs |-> "idle"]
    /\ ppool = [p \in Procs |-> 1]
    /\ pwake = [p \in Procs |-> 0]
    /\ selLog = [x \in PoolIds |-> <<>>]
    /\ penalties = [x \in PoolIds |-> 0]
    /\ window = [x \in PoolIds |-> [i \in Creds |-> NoTime]]

\* get_next_key, lines 58-65: credential i of the list A is returned
SelectFrom(x, P, A, i) ==
    \E pick \in Picks(P, A) :
        /\ pick.key = i
        /\ pools' = [pools EXCEPT ![x] = UseKey(P, pick)]
        /\ selLog' = [selLog EXCEPT ![x] =
                        IF penalties[x] > 0 THEN @ ELSE Append(@, i)]

\* get_next_key, lines 54-56: raise Exception("All API keys are exhausted")
RaiseExhausted(x, P) ==
    /\ pools' = [pools EXCEPT ![x] = P]
    /\ UNCHANGED selLog

\* get_next_key, lines 37-65, without a sleep in _wait_for_cooldown: under
\* self.lock, the call returns credential r or raises (r = Exhausted).  The
\* second filter pass sees the same clock as the first.
PoolSelect(p, x, r) ==
    /\ ppc[p] = "idle"
    /\ plock[x] = 0
    /\ LET P == AfterFilter(pools[x])
           A == AvailableKeys(pools[x]) IN
       IF A # {}
       THEN r \in A /\ SelectFrom(x, P, A, r)
       ELSE r = Exhausted /\ ~Sleeps(P) /\ RaiseExhausted(x, P)
    /\ UNCHANGED <<API_POOL, plock, ppc, ppool, pwake, penalties, window>>

\* the same call, followed for the first MaxSelects selections of the pool
PoolGetNextKey(p, x, r) ==
    /\ TotalRequests(pools[x]) < MaxSelects
    /\ PoolSelect(p, x, r)

\* get_next_key, lines 37-51: no credential is available and
\* _wait_for_cooldown sleeps, self.lock held
PoolBlock(p, x) ==
    /\ ppc[p] = "idle"
    /\ plock[x] = 0
    /\ LET P == AfterFilter(pools[x]) IN
       /\ AvailableKeys(pools[x]) = {}
       /\ Sleeps(P)
       /\ pools' = [pools EXCEPT ![x] = P]
       /\ pwake' = [pwake EXCEPT ![p] = now + WaitTime(P)]
    /\ plock' = [plock EXCEPT ![x] = p]
    /\ ppc' = [ppc EXCEPT ![p] = "sleep"]
    /\ ppool' = [ppool EXCEPT ![p] = x]
    /\ UNCHANGED <<API_POOL, selLog, penalties, window>>

\* the same call, followed for the first MaxSelects selections of the pool
PoolSleep(p, x) ==
    /\ TotalRequests(pools[x]) < MaxSelects
    /\ PoolBlock(p, x)

\* a sleep that never ends
PoolWakeNever(p, r) ==
    /\ ppc[p] = "sleep"
    /\ FALSE
    /\ UNCHANGED pvars

\* get_next_key, lines 52-65: the sleep is over; second filter pass, then
\* credential r or the error (r = Exhausted); self.lock is released
PoolWake(p, r) ==
    /\ ppc[p] = "sleep"
    /\ now >= pwake[p]
    /\ LET x == ppool[p]
           P == AfterFilter(pools[x])
           A == AvailableKeys(pools[x]) IN
       /\ IF A # {}
          THEN r \in A /\ SelectFrom(x, P, A, r)
          ELSE r = Exhausted /\ RaiseExhausted(x, P)
       /\ plock' = [plock EXCEPT ![x] = 0]
    /\ ppc' = [ppc EXCEPT ![p] = "idle"]
    /\ ppool' = [ppool EXCEPT ![p] = 1]
    /\ pwake' = [pwake EXCEPT ![p] = 0]
    /\ UNCHANGED <<API_POOL, penalties, window>>

\* mark_rate_limited(api_key, retry_after) by a thread that is not asleep
PoolMarkRateLimited(p, x, i, m) ==
    /\ ppc[p] # "sleep"
    /\ plock[x] = 0
    /\ penalties[x] < MaxPenalties
    /\ pools' = [pools EXCEPT ![x] = AfterRateLimited(@, i, m)]
    /\ penalties' = [penalties EXCEPT ![x] = @ + 1]
    /\ selLog' = [selLog EXCEPT ![x] = <<>>]
    /\ window' = [window EXCEPT ![x][i] =
                    IF m > 0 THEN Max({@, now + m * MinuteTicks}) ELSE @]
    /\ UNCHANGED <<API_POOL, plock, ppc, ppool, pwake>>

\* a success report without the comparison of the key: the counter of every
\* credential is reset
PoolMarkSuccessAll(p, x, i) ==
    /\ ppc[p] # "sleep"
    /\ plock[x] = 0
    /\ pools' = [pools EXCEPT ![x].ks =
                    [j \in Creds |-> [@[j] EXCEPT !.consecutive_failures = 0]]]
    /\ UNCHANGED <<API_POOL, plock, ppc, ppool, pwake, selLog,
                   penalties, window>>

\* mark_success(api_key)
PoolMarkSuccess(p, x, i) ==
    /\ ppc[p] # "sleep"
    /\ plock[x] = 0
    /\ pools' = [pools EXCEPT ![x] = AfterSuccess(@, i)]
    /\ UNCHANGED <<API_POOL, plock, ppc, ppool, pwake, selLog,
                   penalties, window>>

\* deactivate_key(api_key)
PoolDeactivate(p, x, i) ==
    /\ ppc[p] # "sleep"
    /\ plock[x] = 0
    /\ penalties[x] < MaxPenalties
    /\ pools' = [pools EXCEPT ![x] = AfterDeactivate(@, i)]
    /\ penalties' = [penalties EXCEPT ![x] = @ + 1]
    /\ selLog' = [selLog EXCEPT ![x] = <<>>]
    /\ UNCHANGED <<API_POOL, plock, ppc, ppool, pwake, window>>

\* a get_stats() that does not take self.lock
PoolGetStatsUnlocked(p, x) ==
    /\ ppc[p] # "sleep"
    /\ pools' = [pools EXCEPT ![x] = AfterFilter(@)]
    /\ UNCHANGED <<API_POOL, plock, ppc, ppool, pwake, selLog,
                   penalties, window>>

\* get_stats(): the caller receives StatsOf(pools[x]); the filter pass that
\* counts the available credentials changes the pool
PoolGetStats(p, x) ==
    /\ ppc[p] # "sleep"
    /\ plock[x] = 0
    /\ pools' = [pools EXCEPT ![x] = AfterFilter(@)]
    /\ UNCHANGED <<API_POOL, plock, ppc, ppool, pwake, selLog,
                   penalties, window>>

\* get_next_key followed statement by statement.  The locals of a call: pc
\* (the place), avail (available_keys), idx (the cursor value read), turns
\* (iterations of the round-robin loop begun), key (key_stat), cnt (the
\* request_count read) and, as an observation, done (the number of calls
\* of the thread that returned a credential).
NoLocals ==
    [pc |-> "idle", avail |-> {}, idx |-> 0, turns |-> 0, key |-> Exhausted,
     cnt |-> 0, done |-> 0]

SelInit == sel = [t \in Procs |-> NoLocals]

\* reset_api_pool(strategy): services.API_POOL names a new pool, built at
\* this moment, and its get_stats() is returned; the decorated endpoints
\* keep the pool they were built with
ResetEffect(st) ==
    /\ API_POOL <= MaxResets
    /\ API_POOL' = API_POOL + 1
    /\ pools' = [pools EXCEPT ![API_POOL + 1] = AfterFilter(NewPool(st, now))]
    /\ UNCHANGED <<plock, ppc, ppool, pwake, selLog, penalties, window>>

----------------------------------------------------------------------------
(* RateLimitedQueue (REQUEST_QUEUE)                                        *)

NoRequest == 0
NoThread == 0
NoFunc == 0

\* QueuedRequest(func, args, kwargs, result_event): func is the endpoint
\* the request stands for.  Two fields are observations: runs counts the
\* invocations of request.func, sets the calls of result_event.set().
NewRequest(k) ==
    [func |-> k, result |-> None, error |-> FALSE, event |-> FALSE,
     runs |-> 0, sets |-> 0]

\* self.stats as __init__ builds it
NewStats ==
    [total_requests |-> 0, successful_requests |-> 0, failed_requests |-> 0,
     queue_size |-> 0, last_processed |-> NoTime]

QNoRet == [tag |-> "none", val |-> None]

QueueInit ==
    /\ running = FALSE
    /\ worker_thread = NoThread
    /\ queue = <<>>
    /\ reqs = <<>>
    /\ qstats = NewStats
    /\ qpc = [p \in Callers |-> "idle"]
    /\ qop = [p \in Callers |-> "none"]
    /\ qfn = [p \in Callers |-> NoFunc]
    /\ qreq = [p \in Callers |-> NoRequest]
    /\ qjoin = [p \in Callers |-> NoThread]
    /\ qdl = [p \in Callers |-> 0]
    /\ qret = [p \in Callers |-> QNoRet]
    /\ adminOps = 0
    /\ wpc = [w \in Workers |-> "unborn"]
    /\ wreq = [w \in Workers |-> NoRequest]
    /\ wstart = [w \in Workers |-> 0]
    /\ wwake = [w \in Workers |-> 0]
    /\ lastStart = NoTime

\* the worker threads start() has created or is committed to create
Spawned ==
    Cardinality({w \in Workers : wpc[w] # "unborn"})
    + Cardinality({p \in Callers : qpc[p] \in {"set_running", "spawn"}})

\* thread p moves to position pc of operation op, called with func k; the
\* locals of a finished wait or join are gone
QGoto(p, pc, op, k) ==
    /\ qpc' = [qpc EXCEPT ![p] = pc]
    /\ qop' = [qop EXCEPT ![p] = op]
    /\ qfn' = [qfn EXCEPT ![p] = k]
    /\ qreq' = [qreq EXCEPT ![p] = NoRequest]
    /\ qjoin' = [qjoin EXCEPT ![p] = NoThread]
    /\ qdl' = [qdl EXCEPT ![p] = 0]
    /\ qret' = [qret EXCEPT ![p] = QNoRet]

\* the operation of thread p is over, with outcome r
QReturn(p, r) ==
    /\ qpc' = [qpc EXCEPT ![p] = "done"]
    /\ qop' = [qop EXCEPT ![p] = "none"]
    /\ qfn' = [qfn EXCEPT ![p] = NoFunc]
    /\ qreq' = [qreq EXCEPT ![p] = NoRequest]
    /\ qjoin' = [qjoin EXCEPT ![p] = NoThread]
    /\ qdl' = [qdl EXCEPT ![p] = 0]
    /\ qret' = [qret EXCEPT ![p] = r]

\* start() has returned to the operation op that called it: the wrapper of
\* queued_api_call goes on to enqueue_request(func), start() and
\* clear_queue() are over
QAfterStart(p, op, k) ==
    IF op = "call"
    THEN QGoto(p, "put", op, k)
    ELSE QReturn(p, [tag |-> "ok", val |-> None])

\* start, line 34: if not self.running
QStartTest(p, op, k) ==
    IF ~running
    THEN Spawned < MaxWorkers /\ QGoto(p, "set_running", op, k)
    ELSE QAfterStart(p, op, k)

\* queued_api_call.wrapper, line 133, for a call of endpoint k: if not
\* REQUEST_QUEUE.running, and with it line 34 of the start() it calls (the
\* two reads of self.running follow each other; the step is the second)
QueuedCallEnter(p, k) ==
    /\ qpc[p] \in {"idle", "done"}
    /\ Len(reqs) < MaxRequests
    /\ QStartTest(p, "call", k)
    /\ UNCHANGED <<running, worker_thread, queue, reqs, qstats, adminOps,
                   wpc, wreq, wstart, wwake, lastStart>>

\* enqueue_request(func) called directly: nothing starts the worker
EnqueueEnter(p, k) ==
    /\ qpc[p] \in {"idle", "done"}
    /\ Len(reqs) < MaxRequests
    /\ QGoto(p, "put", "call", k)
    /\ UNCHANGED <<running, worker_thread, queue, reqs, qstats, adminOps,
                   wpc, wreq, wstart, wwake, lastStart>>

\* start() called directly: line 34
QueueStart(p) ==
    /\ qpc[p] \in {"idle", "done"}
    /\ adminOps < MaxAdminOps
    /\ adminOps' = adminOps + 1
    /\ QStartTest(p, "start", NoFunc)
    /\ UNCHANGED <<running, worker_thread, queue, reqs, qstats,
                   wpc, wreq, wstart, wwake, lastStart>>

\* start, line 35: self.running = True
QueueSetRunning(p) ==
    /\ qpc[p] = "set_running"
    /\ running' = TRUE
    /\ qpc' = [qpc EXCEPT ![p] = "spawn"]
    /\ UNCHANGED <<worker_thread, queue, reqs, qstats, qop, qfn, qreq, qjoin,
                   qdl, qret, adminOps, wpc, wreq, wstart, wwake, lastStart>>

\* start, lines 36-37: a new worker thread is created and started
QueueSpawn(p) ==
    /\ qpc[p] = "spawn"
    /\ LET w == Min({v \in Workers : wpc[v] = "unborn"}) IN
       /\ worker_thread' = w
       /\ wpc' = [wpc EXCEPT ![w] = "loop"]
    /\ QAfterStart(p, qop[p], qfn[p])
    /\ UNCHANGED <<running, queue, reqs, qstats, adminOps,
                   wreq, wstart, wwake, lastStart>>

\* enqueue_request, lines 94-110: build the request, put it on the queue,
\* record the queue size and start the wait on result_event
QueuePut(p) ==
    /\ qpc[p] = "put"
    /\ reqs' = Append(reqs, NewRequest(qfn[p]))
    /\ queue' = Append(queue, Len(reqs) + 1)
    /\ qstats' = [qstats EXCEPT !.queue_size = Len(queue) + 1]
    /\ qreq' = [qreq EXCEPT ![p] = Len(reqs) + 1]
    /\ qdl' = [qdl EXCEPT ![p] = now + wait_timeout]
    /\ qpc' = [qpc EXCEPT ![p] = "wait"]
    /\ UNCHANGED <<running, worker_thread, qop, qfn, qjoin, qret,
                   adminOps, wpc, wreq, wstart, wwake, lastStart>>

\* enqueue_request, lines 110-113: the event is set: raise request.error
\* or return request.result
QueueWaitReturns(p) ==
    /\ qpc[p] = "wait"
    /\ reqs[qreq[p]].event
    /\ QReturn(p, IF reqs[qreq[p]].error
                  THEN [tag |-> "error", val |-> None]
                  ELSE [tag |-> "value", val |-> reqs[qreq[p]].result])
    /\ UNCHANGED <<running, worker_thread, queue, reqs, qstats, adminOps,
                   wpc, wreq, wstart, wwake, lastStart>>

\* a wait without a timeout: the caller stays blocked
QueueWaitForever(p) ==
    /\ qpc[p] = "wait"
    /\ FALSE
    /\ UNCHANGED qvars

\* a timeout that cancels the call: the request leaves the queue
QueueWaitTimesOutCancels(p) ==
    /\ qpc[p] = "wait"
    /\ ~reqs[qreq[p]].event
    /\ now >= qdl[p]
    /\ queue' = SelectSeq(queue, LAMBDA r : r # qreq[p])
    /\ QReturn(p, [tag |-> "timeout", val |-> None])
    /\ UNCHANGED <<running, worker_thread, reqs, qstats, adminOps,
                   wpc, wreq, wstart, wwake, lastStart>>

\* enqueue_request, lines 114-115: 60 seconds are over, the event not set
QueueWaitTimesOut(p) ==
    /\ qpc[p] = "wait"
    /\ ~reqs[qreq[p]].event
    /\ now >= qdl[p]
    /\ QReturn(p, [tag |-> "timeout", val |-> None])
    /\ UNCHANGED <<running, worker_thread, queue, reqs, qstats, adminOps,
                   wpc, wreq, wstart, wwake, lastStart>>

\* stop() has returned to the operation op that called it: clear_queue goes
\* on to start(), line 34
QAfterStop(p, op) ==
    IF op = "clear"
    THEN QStartTest(p, op, NoFunc)
    ELSE QReturn(p, [tag |-> "ok", val |-> None])

\* stop, lines 42-44, called directly (op = "stop") or as the first half of
\* clear_queue (op = "clear"): self.running = False, then join the worker
QueueStop(p, op) ==
    /\ qpc[p] \in {"idle", "done"}
    /\ adminOps < MaxAdminOps
    /\ adminOps' = adminOps + 1
    /\ running' = FALSE
    /\ IF worker_thread # NoThread
       THEN /\ qpc' = [qpc EXCEPT ![p] = "join"]
            /\ qop' = [qop EXCEPT ![p] = op]
            /\ qjoin' = [qjoin EXCEPT ![p] = worker_thread]
            /\ qdl' = [qdl EXCEPT ![p] = now + join_timeout]
            /\ qret' = [qret EXCEPT ![p] = QNoRet]
            /\ UNCHANGED <<qfn, qreq>>
       ELSE /\ qpc' = [qpc EXCEPT ![p] = "stopped"]
            /\ qop' = [qop EXCEPT ![p] = op]
            /\ qret' = [qret EXCEPT ![p] = QNoRet]
            /\ UNCHANGED <<qfn, qreq, qjoin, qdl>>
    /\ UNCHANGED <<worker_thread, queue, reqs, qstats,
                   wpc, wreq, wstart, wwake, lastStart>>

\* stop, line 43: there is no worker thread to join
QueueStopReturns(p) ==
    /\ qpc[p] = "stopped"
    /\ QAfterStop(p, qop[p])
    /\ UNCHANGED <<running, worker_thread, queue, reqs, qstats, adminOps,
                   wpc, wreq, wstart, wwake, lastStart>>

\* stop, line 44: the worker thread has ended
QueueJoinReturns(p) ==
    /\ qpc[p] = "join"
    /\ wpc[qjoin[p]] = "dead"
    /\ QAfterStop(p, qop[p])
    /\ UNCHANGED <<running, worker_thread, queue, reqs, qstats, adminOps,
                   wpc, wreq, wstart, wwake, lastStart>>

\* stop, line 44: join(timeout=5) gives up, the worker thread lives on
QueueJoinTimesOut(p) ==
    /\ qpc[p] = "join"
    /\ wpc[qjoin[p]] # "dead"
    /\ now >= qdl[p]
    /\ QAfterStop(p, qop[p])
    /\ UNCHANGED <<running, worker_thread, queue, reqs, qstats, adminOps,
                   wpc, wreq, wstart, wwake, lastStart>>

\* _process_queue, line 48: while self.running is over, the thread ends
WorkerExits(w) ==
    /\ wpc[w] = "loop"
    /\ ~running
    /\ wpc' = [wpc EXCEPT ![w] = "dead"]
    /\ UNCHANGED <<running, worker_thread, queue, reqs, qstats, qpc, qop, qfn,
                   qreq, qjoin, qdl, qret, adminOps, wreq, wstart, wwake,
                   lastStart>>

\* a worker that reads the oldest request and leaves it on the queue
WorkerTakesPeek(w) ==
    /\ wpc[w] = "loop"
    /\ running
    /\ queue # <<>>
    /\ wreq' = [wreq EXCEPT ![w] = Head(queue)]
    /\ wstart' = [wstart EXCEPT ![w] = now]
    /\ lastStart' = now
    /\ reqs' = [reqs EXCEPT ![Head(queue)].runs = @ + 1]
    /\ wpc' = [wpc EXCEPT ![w] = "exec"]
    /\ UNCHANGED <<running, worker_thread, queue, qstats, qpc, qop, qfn,
                   qreq, qjoin, qdl, qret, adminOps, wwake>>

\* _process_queue, lines 48-61: self.running holds and the queue is not
\* empty: take the oldest request, note start_time and invoke request.func.
\* On an empty queue the thread sleeps 0.1 s and comes back to line 48,
\* which changes nothing.
WorkerTakes(w) ==
    /\ wpc[w] = "loop"
    /\ running
    /\ queue # <<>>
    /\ wreq' = [wreq EXCEPT ![w] = Head(queue)]
    /\ queue' = Tail(queue)
    /\ wstart' = [wstart EXCEPT ![w] = now]
    /\ lastStart' = now
    /\ reqs' = [reqs EXCEPT ![Head(queue)].runs = @ + 1]
    /\ wpc' = [wpc EXCEPT ![w] = "exec"]
    /\ UNCHANGED <<running, worker_thread, qstats, qpc, qop, qfn,
                   qreq, qjoin, qdl, qret, adminOps, wwake>>

\* a worker that writes the value into every request object
WorkerFuncReturnsShared(w, v) ==
    /\ wpc[w] = "exec"
    /\ reqs' = [r \in DOMAIN reqs |-> [reqs[r] EXCEPT !.result = v]]
    /\ qstats' = [qstats EXCEPT !.successful_requests = @ + 1]
    /\ wpc' = [wpc EXCEPT ![w] = "total"]
    /\ UNCHANGED <<running, worker_thread, queue, qpc, qop, qfn, qreq, qjoin,
                   qdl, qret, adminOps, wreq, wstart, wwake, lastStart>>

\* _process_queue, lines 61-64: request.func returned v
WorkerFuncReturns(w, v) ==
    /\ wpc[w] = "exec"
    /\ reqs' = [reqs EXCEPT ![wreq[w]].result = v]
    /\ qstats' = [qstats EXCEPT !.successful_requests = @ + 1]
    /\ wpc' = [wpc EXCEPT ![w] = "total"]
    /\ UNCHANGED <<running, worker_thread, queue, qpc, qop, qfn, qreq, qjoin,
                   qdl, qret, adminOps, wreq, wstart, wwake, lastStart>>

\* _process_queue, lines 66-71: request.func raised
WorkerFuncRaises(w) ==
    /\ wpc[w] = "exec"
    /\ reqs' = [reqs EXCEPT ![wreq[w]].error = TRUE]
    /\ qstats' = [qstats EXCEPT !.failed_requests = @ + 1]
    /\ wpc' = [wpc EXCEPT ![w] = "total"]
    /\ UNCHANGED <<running, worker_thread, queue, qpc, qop, qfn, qreq, qjoin,
                   qdl, qret, adminOps, wreq, wstart, wwake, lastStart>>

\* _process_queue, lines 83-84: sleep_time = max(0, interval - elapsed)
SleepTime(w) == Max({0, interval - (now - wstart[w])})

\* a worker that sets the event and leaves total_requests as it is
WorkerCompletesUncounted(w) ==
    /\ wpc[w] = "total"
    /\ qstats' = [qstats EXCEPT !.last_processed = now,
                               !.queue_size = Len(queue)]
    /\ reqs' = [reqs EXCEPT ![wreq[w]].event = TRUE,
                            ![wreq[w]].sets = @ + 1]
    /\ wreq' = [wreq EXCEPT ![w] = NoRequest]
    /\ wstart' = [wstart EXCEPT ![w] = 0]
    /\ IF SleepTime(w) > 0
       THEN /\ wpc' = [wpc EXCEPT ![w] = "sleep"]
            /\ wwake' = [wwake EXCEPT ![w] = now + SleepTime(w)]
       ELSE /\ wpc' = [wpc EXCEPT ![w] = "loop"]
            /\ UNCHANGED wwake
    /\ UNCHANGED <<running, worker_thread, queue, qpc, qop, qfn, qreq,
                   qjoin, qdl, qret, adminOps, lastStart>>

\* _process_queue, lines 74-86: the totals, the event, and the sleep for
\* what is left of the interval
WorkerCompletes(w) ==
    /\ wpc[w] = "total"
    /\ qstats' = [qstats EXCEPT !.total_requests = @ + 1,
                               !.last_processed = now,
                               !.queue_size = Len(queue)]
    /\ reqs' = [reqs EXCEPT ![wreq[w]].event = TRUE,
                            ![wreq[w]].sets = @ + 1]
    /\ wreq' = [wreq EXCEPT ![w] = NoRequest]
    /\ wstart' = [wstart EXCEPT ![w] = 0]
    /\ IF SleepTime(w) > 0
       THEN /\ wpc' = [wpc EXCEPT ![w] = "sleep"]
            /\ wwake' = [wwake EXCEPT ![w] = now + SleepTime(w)]
       ELSE /\ wpc' = [wpc EXCEPT ![w] = "loop"]
            /\ UNCHANGED wwake
    /\ UNCHANGED <<running, worker_thread, queue, qpc, qop, qfn, qreq,
                   qjoin, qdl, qret, adminOps, lastStart>>

\* _process_queue, line 86: time.sleep(sleep_time) is over
WorkerWakes(w) ==
    /\ wpc[w] = "sleep"
    /\ now >= wwake[w]
    /\ wpc' = [wpc EXCEPT ![w] = "loop"]
    /\ wwake' = [wwake EXCEPT ![w] = 0]
    /\ UNCHANGED <<running, worker_thread, queue, reqs, qstats, qpc, qop, qfn,
                   qreq, qjoin, qdl, qret, adminOps, wreq, wstart, lastStart>>

\* get_stats(): the dict returned
QueueStatsOf ==
    [total_requests |-> qstats.total_requests,
     successful_requests |-> qstats.successful_requests,
     failed_requests |-> qstats.failed_requests,
     last_processed |-> qstats.last_processed,
     queue_size |-> Len(queue),
     is_running |-> running]

\* the times at which a wait of the queue's threads ends
QueueDeadlines ==
    {qdl[p] : p \in {c \in Callers : qpc[c] \in {"wait", "join"}}}
    \cup {wwake[w] : w \in {v \in Workers : wpc[v] = "sleep"}}

----------------------------------------------------------------------------
(* api_request_with_rotation: the retry wrapper around a raw fetch         *)

NoKey == 0
RNoRet == [tag |-> "none", val |-> None]
NoOutcome == [kind |-> "none", val |-> None]

\* the Retry-After header of a 429 response, in seconds (NoHint: no header)
RetryAfterSeconds == {NoHint, 30, 120}

\* what one invocation of the raw fetch can end with: the data, an HTTPError
\* with status 429 (and a Retry-After header), 403 or another status, or
\* another exception
FetchOutcomes ==
    {[kind |-> "value", val |-> v] : v \in Values}
    \cup {[kind |-> "429", val |-> h] : h \in RetryAfterSeconds}
    \cup {[kind |-> e, val |-> None] : e \in {"403", "http", "other"}}

\* wrapper, line 217: int(retry_after) // 60 if retry_after else None
RetryMinutes(h) == IF h = NoHint THEN NoHint ELSE h \div 60

\* wrapper, line 236: time.sleep(2 ** attempt), in half seconds
Backoff(a) == 2 * (2 ^ a)

RetryInit ==
    /\ rpc = [t \in Procs |-> "idle"]
    /\ rattempt = [t \in Procs |-> 0]
    /\ rkey = [t \in Procs |-> NoKey]
    /\ rlast = [t \in Procs |-> "none"]
    /\ rout = [t \in Procs |-> NoOutcome]
    /\ rwake = [t \in Procs |-> 0]
    /\ rret = [t \in Procs |-> RNoRet]
    /\ rseen = [t \in Procs |-> 1]
    /\ rpicks = [t \in Procs |-> 0]

\* wrapper, lines 197-199: last_exception = None, first attempt
RetryEnter(t) ==
    /\ rpc[t] \in {"idle", "done"}
    /\ rpc' = [rpc EXCEPT ![t] = "select"]
    /\ rattempt' = [rattempt EXCEPT ![t] = 0]
    /\ rkey' = [rkey EXCEPT ![t] = NoKey]
    /\ rlast' = [rlast EXCEPT ![t] = "none"]
    /\ rout' = [rout EXCEPT ![t] = NoOutcome]
    /\ rwake' = [rwake EXCEPT ![t] = 0]
    /\ rret' = [rret EXCEPT ![t] = RNoRet]
    /\ rseen' = [rseen EXCEPT ![t] = API_POOL]
    /\ rpicks' = [rpicks EXCEPT ![t] = 0]

\* the wrapper is left with outcome r; its locals are gone
RetryLeave(t, r) ==
    /\ rpc' = [rpc EXCEPT ![t] = "done"]
    /\ rattempt' = [rattempt EXCEPT ![t] = 0]
    /\ rkey' = [rkey EXCEPT ![t] = NoKey]
    /\ rlast' = [rlast EXCEPT ![t] = "none"]
    /\ rout' = [rout EXCEPT ![t] = NoOutcome]
    /\ rwake' = [rwake EXCEPT ![t] = 0]
    /\ rret' = [rret EXCEPT ![t] = r]
    /\ rpicks' = [rpicks EXCEPT ![t] = 0]
    /\ UNCHANGED rseen

\* a wrapper that swallows the last error and returns None
RetryRaiseSwallowed(t, e) == RetryLeave(t, [tag |-> "value", val |-> None])

\* wrapper, line 238: raise last_exception
RetryRaise(t, e) == RetryLeave(t, [tag |-> "raise", val |-> e])

\* a loop that goes round without counting the attempt
RetryAgainSameAttempt(t, e) ==
    /\ rpc' = [rpc EXCEPT ![t] = "select"]
    /\ rlast' = [rlast EXCEPT ![t] = e]
    /\ rout' = [rout EXCEPT ![t] = NoOutcome]
    /\ rwake' = [rwake EXCEPT ![t] = 0]
    /\ UNCHANGED <<rattempt, rkey, rret, rseen, rpicks>>

\* wrapper, lines 199-201: the next attempt begins
RetryAgain(t, e) ==
    /\ rpc' = [rpc EXCEPT ![t] = "select"]
    /\ rattempt' = [rattempt EXCEPT ![t] = @ + 1]
    /\ rlast' = [rlast EXCEPT ![t] = e]
    /\ rout' = [rout EXCEPT ![t] = NoOutcome]
    /\ rwake' = [rwake EXCEPT ![t] = 0]
    /\ UNCHANGED <<rkey, rret, rseen, rpicks>>

\* a wrapper that treats every HTTP status error as it treats a non-HTTP
\* exception: backoff, then the next attempt
RetryFailRetriesHttp(t, e) ==
    CASE e \in {"429", "403"} ->
            IF rattempt[t] + 1 < max_retries
            THEN RetryAgain(t, e)
            ELSE RetryRaise(t, e)
      [] OTHER ->
            IF rattempt[t] < max_retries - 1
            THEN /\ rpc' = [rpc EXCEPT ![t] = "backoff"]
                 /\ rlast' = [rlast EXCEPT ![t] = e]
                 /\ rout' = [rout EXCEPT ![t] = NoOutcome]
                 /\ rwake' = [rwake EXCEPT ![t] = now + Backoff(rattempt[t])]
                 /\ UNCHANGED <<rattempt, rkey, rret, rseen, rpicks>>
            ELSE RetryRaise(t, e)

\* wrapper, lines 212-238: the attempt failed with e.  After 429 and 403
\* the loop continues at once; another HTTP error breaks out of the loop;
\* any other exception is followed by the backoff sleep unless the attempt
\* was the last
RetryFail(t, e) ==
    CASE e \in {"429", "403"} ->
            IF rattempt[t] + 1 < max_retries
            THEN RetryAgain(t, e)
            ELSE RetryRaise(t, e)
      [] e = "http" -> RetryRaise(t, e)
      [] OTHER ->
            IF rattempt[t] < max_retries - 1
            THEN /\ rpc' = [rpc EXCEPT ![t] = "backoff"]
                 /\ rlast' = [rlast EXCEPT ![t] = e]
                 /\ rout' = [rout EXCEPT ![t] = NoOutcome]
                 /\ rwake' = [rwake EXCEPT ![t] = now + Backoff(rattempt[t])]
                 /\ UNCHANGED <<rattempt, rkey, rret, rseen, rpicks>>
            ELSE RetryRaise(t, e)

\* wrapper, lines 201-206: get_next_key returned credential r, with which
\* the raw fetch is invoked, or raised (r = Exhausted)
RetryGotKey(t, r) ==
    IF r = Exhausted
    THEN RetryFail(t, "exhausted")
    ELSE /\ rpc' = [rpc EXCEPT ![t] = "fetch"]
         /\ rkey' = [rkey EXCEPT ![t] = r]
         /\ rpicks' = [rpicks EXCEPT ![t] = @ + 1]
         /\ UNCHANGED <<rattempt, rlast, rout, rwake, rret, rseen>>

\* the reports to the pool that threads are about to make
PendingPenalties ==
    Cardinality({t \in Procs : rpc[t] = "report" /\ rout[t].kind # "value"})

\* wrapper, line 206 and the except clauses: the raw fetch ended with o; a
\* value, a 429 and a 403 are reported to the pool next
RetryFetchEnds(t, o) ==
    /\ rpc[t] = "fetch"
    /\ IF o.kind \in {"value", "429", "403"}
       THEN /\ o.kind # "value" => penalties[1] + PendingPenalties < MaxPenalties
            /\ rpc' = [rpc EXCEPT ![t] = "report"]
            /\ rout' = [rout EXCEPT ![t] = o]
            /\ rlast' = [rlast EXCEPT ![t] = IF o.kind = "value" THEN @ ELSE o.kind]
            /\ UNCHANGED <<rattempt, rkey, rwake, rret, rseen, rpicks>>
       ELSE RetryFail(t, o.kind)

\* wrapper, lines 209-210, 218-221 and 223-225: mark_success and return the
\* result; mark_rate_limited and continue; deactivate_key and continue
RetryReport(t) ==
    /\ rpc[t] = "report"
    /\ CASE rout[t].kind = "value" ->
              /\ PoolMarkSuccess(t, 1, rkey[t])
              /\ RetryLeave(t, [tag |-> "value", val |-> rout[t].val])
         [] rout[t].kind = "429" ->
              /\ PoolMarkRateLimited(t, 1, rkey[t], RetryMinutes(rout[t].val))
              /\ RetryFail(t, "429")
         [] OTHER ->
              /\ PoolDeactivate(t, 1, rkey[t])
              /\ RetryFail(t, "403")

\* wrapper, line 236: the backoff sleep is over
RetryBackoffEnds(t) ==
    /\ rpc[t] = "backoff"
    /\ now >= rwake[t]
    /\ RetryAgain(t, rlast[t])

----------------------------------------------------------------------------
(* The cache on its own: callers of a cached function whose func is any    *)
(* function that returns a value or raises                                 *)

CachedCall(p, k) == WrapperCall(p, k) /\ UNCHANGED <<now, notCache>>
GetLock(p) == WrapperGetLock(p) /\ UNCHANGED <<now, notCache>>
AcquireKeyLock(p) == WrapperAcquire(p) /\ UNCHANGED <<now, notCache>>
Recheck(p) == WrapperRecheck(p) /\ UNCHANGED <<now, notCache>>
FuncReturns(p, v) == WrapperFuncReturns(p, v) /\ UNCHANGED <<now, notCache>>
StoreResult(p) == WrapperStore(p) /\ UNCHANGED <<now, notCache>>
FuncRaises(p) == WrapperFuncRaises(p) /\ UNCHANGED <<now, notCache>>

\* clear_cache()
CacheClear ==
    /\ gen < MaxClears
    /\ ClearEffect
    /\ UNCHANGED <<now, notCache>>

\* the clock of the cache specifications advances by whole minutes
CacheTick ==
    /\ now + MinuteTicks <= MaxCacheMinutes * MinuteTicks
    /\ now' = now + MinuteTicks
    /\ UNCHANGED <<cvars, notCache>>

CacheStep ==
    \/ \E p \in Callers, k \in CacheKeys : CachedCall(p, k)
    \/ \E p \in Callers : GetLock(p)
    \/ \E p \in Callers : AcquireKeyLock(p)
    \/ \E p \in Callers : Recheck(p)
    \/ \E p \in Callers, v \in Values : FuncReturns(p, v)
    \/ \E p \in Callers : StoreResult(p)
    \/ \E p \in Callers : FuncRaises(p)

\* the state after import of services.py
Init ==
    /\ now = 0
    /\ CacheInit
    /\ PoolInitWith("round_robin")
    /\ QueueInit
    /\ RetryInit
    /\ calls = 0
    /\ SelInit
    /\ FpInit

\* cached calls and the clock, no clear()
NextStampede == CacheStep \/ CacheTick
SpecStampede == Init /\ [][NextStampede]_vars

\* cached calls, the clock and clear()
NextCache == CacheStep \/ CacheTick \/ CacheClear
SpecCache == Init /\ [][NextCache]_vars

\* two calls of cached functions, whose cache keys are built
NextKey == \E c \in CallInputs : KeyedCall(c)
SpecKey == Init /\ [][NextKey]_vars

----------------------------------------------------------------------------
(* Claims about the cache                                                  *)

\* C1, as stated: among the calls for one fingerprint that fall inside one
\* TTL window func is invoked at most once: no invocation of func for a key
\* starts less than one TTL after the start of the previous invocation for
\* that key.
C1_OneInvocationPerWindow ==
    [][\A p \in Procs :
          (cpc[p] # "func" /\ cpc'[p] = "func")
          => \/ anyStart[ckey[p]] = -1
             \/ now - anyStart[ckey[p]] >= default_ttl]_vars

\* C1, amended: func is invoked at most once successfully: an invocation
\* that returns a value started at least one TTL after the start of the
\* previous invocation for that key that returned a value.
C1_OneSuccessfulInvocationPerWindow ==
    [][\A p \in Procs :
          (cpc[p] = "func" /\ cpc'[p] = "set")
          => \/ okStart[ckey[p]] = -1
             \/ cstart[p] - okStart[ckey[p]] >= default_ttl]_vars

\* two concurrent callers of one absent fingerprint: one invoked func, the
\* other waited for the key lock and was served the stored value
C1_Witness ==
    \E p, q \in Callers :
        /\ cret[p].tag = "miss"
        /\ cret[q].tag = "hit_after_lock"
        /\ cret[q].val = cret[p].val
        /\ now < default_ttl

\* C2: at most one invocation of func per fingerprint is in progress, also
\* when clear() interleaves with the cached calls.
C2_OneFetchInFlightPerKey ==
    \A k \in Keys :
        Cardinality({p \in Procs : cpc[p] = "func" /\ ckey[p] = k}) <= 1

\* C9: a call that came across an expired entry and whose func then failed
\* returns the expired value; the error is raised only by a call that came
\* across no stored value.
C9_StaleValueOnFailure ==
    \A p \in Procs :
        (cpc[p] = "done" /\ cret[p].tag \in {"raise", "fallback"})
        => IF cstale[p] # None
           THEN cret[p] = [tag |-> "fallback", val |-> cstale[p]]
           ELSE cret[p].tag = "raise"

\* C10: get on an entry whose TTL has elapsed returns the stored value with
\* is_fresh = False and leaves the entry in the cache.
C10_GetKeepsExpiredEntry ==
    \A p \in Procs :
        (cget[p].found # None /\ ~cget[p].fresh)
        => cget[p].data = cget[p].found /\ cget[p].kept

\* C11: with no clear() in between, a cached call made less than one TTL
\* after the entry of its fingerprint was stored returns the stored value at
\* once and func is not invoked; a call made when one TTL or more has gone
\* by since the store is not answered from that entry: it goes on to the key
\* lock, and the thread that finds no fresh entry under the lock invokes
\* func.
C11_HitWithinTtlRefetchAfter ==
    [][\A p \in Callers, k \in CacheKeys :
          /\ ( /\ cpc[p] \in {"idle", "done"}
               /\ <<cpc[p], cret[p]>>' # <<cpc[p], cret[p]>>
               /\ cache[k] # NoEntry )
             => IF now - cache[k][2] < default_ttl
                THEN /\ cpc'[p] = "done"
                     /\ cret'[p] = [tag |-> "hit", val |-> cache[k][1]]
                     /\ anyStart' = anyStart
                     /\ cache' = cache
                ELSE /\ cpc'[p] = "get_lock"
                     /\ cret'[p].tag = "none"
          /\ ( /\ cpc[p] = "recheck"
               /\ cpc'[p] # "recheck"
               /\ ckey[p] = k
               /\ \/ cache[k] = NoEntry
                  \/ now - cache[k][2] >= default_ttl )
             => /\ cpc'[p] = "func"
                /\ anyStart'[k] = now]_vars

\* a store at time 0, a hit less than one TTL later, and one TTL after the
\* store a call that invoked func again and stored its result
C11_Witness ==
    \E p, q \in Callers :
        /\ cret[p].tag = "hit"
        /\ cret[q].tag = "miss"
        /\ okStart[1] >= default_ttl
        /\ cache[1] # NoEntry
        /\ cache[1][2] >= default_ttl

----------------------------------------------------------------------------
(* The credential pool on its own: threads calling the methods of one     *)
(* ApiKeyPool with any arguments                                           *)

GetNextKey(p, r) == PoolGetNextKey(p, 1, r) /\ UNCHANGED <<now, notPool>>
SleepForCooldown(p) == PoolSleep(p, 1) /\ UNCHANGED <<now, notPool>>
WakeUp(p, r) == PoolWake(p, r) /\ UNCHANGED <<now, notPool>>
MarkRateLimited(p, i, m) ==
    PoolMarkRateLimited(p, 1, i, m) /\ UNCHANGED <<now, notPool>>
MarkSuccess(p, i) == PoolMarkSuccess(p, 1, i) /\ UNCHANGED <<now, notPool>>
DeactivateKey(p, i) == PoolDeactivate(p, 1, i) /\ UNCHANGED <<now, notPool>>
GetStats(p) == PoolGetStats(p, 1) /\ UNCHANGED <<now, notPool>>

\* the clock of the pool specification advances by half minutes
PoolTick ==
    /\ now + HalfMinuteTicks <= MaxPoolHalfMinutes * HalfMinuteTicks
    /\ now' = now + HalfMinuteTicks
    /\ UNCHANGED <<pvars, notPool>>

NextPool ==
    \/ \E p \in Callers, r \in Creds \cup {Exhausted} : GetNextKey(p, r)
    \/ \E p \in Callers : SleepForCooldown(p)
    \/ \E p \in Callers, r \in Creds \cup {Exhausted} : WakeUp(p, r)
    \/ \E p \in Callers, i \in Creds, m \in RetryAfter : MarkRateLimited(p, i, m)
    \/ \E p \in Callers, i \in Creds : MarkSuccess(p, i)
    \/ \E p \in Callers, i \in Creds : DeactivateKey(p, i)
    \/ \E p \in Callers : GetStats(p)
    \/ PoolTick
\* a pool built with any of the strategies
InitPool ==
    /\ now = 0
    /\ CacheInit
    /\ \E st \in Strategies : PoolInitWith(st)
    /\ QueueInit
    /\ RetryInit
    /\ calls = 0
    /\ SelInit
    /\ FpInit
SpecPool == InitPool /\ [][NextPool]_vars

----------------------------------------------------------------------------
(* Claims about the credential pool                                        *)

\* the step is a get_next_key that returns credential i of the first pool
Selected(i) ==
    pools'[1].ks[i].request_count = pools[1].ks[i].request_count + 1

\* C6: get_next_key never returns a credential whose rate_limited_until
\* deadline has not passed: in every step that selects credential i, either
\* i carries no deadline or the deadline is not after the current time.
C6_NoSelectionBeforeDeadline ==
    [][\A i \in Creds :
          Selected(i)
          => \/ pools[1].ks[i].rate_limited_until = NoTime
             \/ now >= pools[1].ks[i].rate_limited_until]_vars

\* a credential was marked rate limited with a hint, and was returned again
\* by a selection made once the hinted deadline had passed
C6_Witness ==
    \E i \in Creds :
        /\ window[1][i] # NoTime
        /\ pools[1].ks[i].request_count > 0
        /\ pools[1].ks[i].last_used >= window[1][i]
        /\ pools[1].ks[i].rate_limited_until = NoTime

\* C20: a deactivated credential stays deactivated: within the pool its
\* is_active flag never becomes true again and get_next_key never returns
\* it again, whatever step follows (success reports, rate-limit reports,
\* the end of a cooldown, get_stats).
C20_DeactivationPermanent ==
    [][\A i \in Creds :
          ~pools[1].ks[i].is_active
          => /\ ~pools'[1].ks[i].is_active
             /\ ~Selected(i)]_vars

\* credential i is deactivated; a rate-limit report and then a success
\* report were made for it, its cooldown has ended, and a selection made
\* after that end passed it over and returned another credential
C20_Witness ==
    \E i, j \in Creds :
        /\ i # j
        /\ ~pools[1].ks[i].is_active
        /\ pools[1].ks[i].rate_limited_until # NoTime
        /\ pools[1].ks[i].consecutive_failures = 0
        /\ pools[1].ks[j].request_count > 0
        /\ pools[1].ks[j].last_used >= pools[1].ks[i].rate_limited_until

\* C7: after a rate-limit report with a hint of H minutes the credential is
\* not selected during the following H minutes, whatever else is reported
\* for it meanwhile, and get_stats shows it as rate limited all that time.
C7_HintedWindowHonoured ==
    [][\A i \in Creds :
          /\ Selected(i) => (window[1][i] = NoTime \/ now >= window[1][i])
          /\ now < window[1][i] => StatsOf(pools[1]).keys[i].rate_limited]_vars

\* C8: with strategy round_robin and no credential rate limited or
\* deactivated, the selections run through the credentials in pool order,
\* cyclically: the n-th selection returns credential ((n - 1) mod K) + 1.
C8_RoundRobinOrder ==
    pools[1].strategy = "round_robin"
    => \A n \in 1..Len(selLog[1]) : selLog[1][n] = ((n - 1) % MaxCreds) + 1

\* more selections than credentials were made: the cycle has started again
C8_Witness ==
    /\ pools[1].strategy = "round_robin"
    /\ Len(selLog[1]) > MaxCreds
    /\ selLog[1][MaxCreds + 1] = selLog[1][1]

----------------------------------------------------------------------------
(* The queue on its own: callers of queued functions, of enqueue_request,  *)
(* start, stop and clear_queue; the queued func is any function that       *)
(* returns a value or raises                                               *)

QueuedCall(p, k) == QueuedCallEnter(p, k) /\ UNCHANGED <<now, notQueue>>
EnqueueRequest(p, k) == EnqueueEnter(p, k) /\ UNCHANGED <<now, notQueue>>
Start(p) == QueueStart(p) /\ UNCHANGED <<now, notQueue>>
Stop(p) == QueueStop(p, "stop") /\ UNCHANGED <<now, notQueue>>
ClearQueue(p) == QueueStop(p, "clear") /\ UNCHANGED <<now, notQueue>>
StopReturns(p) == QueueStopReturns(p) /\ UNCHANGED <<now, notQueue>>
SetRunning(p) == QueueSetRunning(p) /\ UNCHANGED <<now, notQueue>>
SpawnWorker(p) == QueueSpawn(p) /\ UNCHANGED <<now, notQueue>>
Put(p) == QueuePut(p) /\ UNCHANGED <<now, notQueue>>
WaitReturns(p) == QueueWaitReturns(p) /\ UNCHANGED <<now, notQueue>>
WaitTimesOut(p) == QueueWaitTimesOut(p) /\ UNCHANGED <<now, notQueue>>
JoinReturns(p) == QueueJoinReturns(p) /\ UNCHANGED <<now, notQueue>>
JoinTimesOut(p) == QueueJoinTimesOut(p) /\ UNCHANGED <<now, notQueue>>
Exit(w) == WorkerExits(w) /\ UNCHANGED <<now, notQueue>>
Take(w) == WorkerTakes(w) /\ UNCHANGED <<now, notQueue>>
QueuedFuncReturns(w, v) ==
    WorkerFuncReturns(w, v) /\ UNCHANGED <<now, notQueue>>
QueuedFuncRaises(w) == WorkerFuncRaises(w) /\ UNCHANGED <<now, notQueue>>
Complete(w) == WorkerCompletes(w) /\ UNCHANGED <<now, notQueue>>
Wake(w) == WorkerWakes(w) /\ UNCHANGED <<now, notQueue>>

\* the clock of the queue specification moves to the next time at which a
\* wait of one of the queue's threads ends
QueueTick ==
    /\ \E d \in QueueDeadlines : d > now
    /\ now' = Min({d \in QueueDeadlines : d > now})
    /\ now' <= MaxQueueIntervals * interval
    /\ UNCHANGED <<qvars, notQueue>>

NextQueue ==
    \/ \E p \in Callers : QueuedCall(p, 4)
    \/ \E p \in Callers : EnqueueRequest(p, 4)
    \/ \E p \in Callers : Start(p)
    \/ \E p \in Callers : Stop(p)
    \/ \E p \in Callers : ClearQueue(p)
    \/ \E p \in Callers : StopReturns(p)
    \/ \E p \in Callers : SetRunning(p)
    \/ \E p \in Callers : SpawnWorker(p)
    \/ \E p \in Callers : Put(p)
    \/ \E p \in Callers : WaitReturns(p)
    \/ \E p \in Callers : WaitTimesOut(p)
    \/ \E p \in Callers : JoinReturns(p)
    \/ \E p \in Callers : JoinTimesOut(p)
    \/ \E w \in Workers : Exit(w)
    \/ \E w \in Workers : Take(w)
    \/ \E w \in Workers, v \in Values : QueuedFuncReturns(w, v)
    \/ \E w \in Workers : QueuedFuncRaises(w)
    \/ \E w \in Workers : Complete(w)
    \/ \E w \in Workers : Wake(w)
    \/ QueueTick
SpecQueue == Init /\ [][NextQueue]_vars

\* a coarser clock for the waits of the callers: time advances by half
\* minutes up to the end of a wait that began at time 0
QueueSlowTick ==
    /\ now + HalfMinuteTicks <= wait_timeout
    /\ now' = now + HalfMinuteTicks
    /\ UNCHANGED <<qvars, notQueue>>

\* the callers of enqueue_request and of queued functions, with stop() and
\* the coarser clock, and with the scheduling the threads get: time goes on,
\* and a thread blocked in result_event.wait(timeout=60) runs again once the
\* event is set or the timeout is over.  The func returns a value or raises.
NextQueueLive ==
    \/ \E p \in Callers : QueuedCall(p, 4)
    \/ \E p \in Callers : EnqueueRequest(p, 4)
    \/ \E p \in Callers : Stop(p)
    \/ \E p \in Callers : StopReturns(p)
    \/ \E p \in Callers : SetRunning(p)
    \/ \E p \in Callers : SpawnWorker(p)
    \/ \E p \in Callers : Put(p)
    \/ \E p \in Callers : WaitReturns(p)
    \/ \E p \in Callers : WaitTimesOut(p)
    \/ \E p \in Callers : JoinReturns(p)
    \/ \E p \in Callers : JoinTimesOut(p)
    \/ \E w \in Workers : Exit(w)
    \/ \E w \in Workers : Take(w)
    \/ \E w \in Workers : QueuedFuncReturns(w, 1)
    \/ \E w \in Workers : QueuedFuncRaises(w)
    \/ \E w \in Workers : Complete(w)
    \/ \E w \in Workers : Wake(w)
    \/ QueueSlowTick
QueueFairness ==
    /\ WF_vars(QueueSlowTick)
    /\ \A p \in Callers : WF_vars(WaitReturns(p) \/ WaitTimesOut(p))
SpecQueueLive == Init /\ [][NextQueueLive]_vars /\ QueueFairness

----------------------------------------------------------------------------
(* Claims about the queue                                                  *)

\* the worker threads inside _process_queue
LiveWorkers == {w \in Workers : wpc[w] \notin {"unborn", "dead"}}

\* C3: the start times of any two executions are at least the interval
\* apart: a request starts executing only when no execution has started
\* yet or the latest one started at least one interval ago.
C3_ExecutionsSpaced ==
    [][\A w \in Workers :
          (wpc[w] = "loop" /\ wpc'[w] = "exec")
          => \/ lastStart = NoTime
             \/ now - lastStart >= interval]_vars

\* C4: at most one worker thread is inside the processing loop, and so at
\* most one queued call is executing.
C4_SingleWorker ==
    /\ Cardinality(LiveWorkers) <= 1
    /\ Cardinality({w \in Workers : wpc[w] = "exec"}) <= 1

\* what the execution of a request left in it: the error or the result
OutcomeIn(r) ==
    IF reqs[r].error
    THEN [tag |-> "error", val |-> None]
    ELSE [tag |-> "value", val |-> reqs[r].result]

\* C12: a caller serviced within its wait receives the outcome of its own
\* operation: the request it waits on is one it built itself for its func and
\* shares with no other caller; the result and the error of a request are
\* written only by the worker that executes that request; and the caller
\* returns (or raises) what the one execution of its request left in it.
C12_OwnOutcome ==
    [][/\ \A p \in Callers :
             (qpc[p] = "put" /\ qpc'[p] = "wait")
             => /\ qreq'[p] = Len(reqs) + 1
                /\ Len(reqs') = Len(reqs) + 1
                /\ reqs'[qreq'[p]].func = qfn[p]
                /\ \A q \in Callers \ {p} : qreq'[q] # qreq'[p]
       /\ \A r \in 1..Len(reqs) :
             (reqs'[r].result # reqs[r].result \/ reqs'[r].error # reqs[r].error)
             => \E w \in Workers :
                   wpc[w] = "exec" /\ wreq[w] = r /\ wpc'[w] = "total"
       /\ \A p \in Callers :
             (qpc[p] = "wait" /\ qpc'[p] = "done" /\ qret'[p].tag # "timeout")
             => /\ reqs[qreq[p]].runs = 1
                /\ qret'[p] = OutcomeIn(qreq[p])]_vars

\* two callers were serviced, one received the value of its operation, the
\* other the error of its own
C12_Witness ==
    /\ Len(reqs) = 2
    /\ qret[1] = [tag |-> "value", val |-> 2]
    /\ qret[2].tag = "error"
    /\ reqs[1].event /\ reqs[2].event

\* C13: every enqueue_request returns to its caller, with the result, the
\* error or the timeout: a caller waiting on its request, with the end of
\* its wait inside the time the specification follows, leaves the wait,
\* whether the worker runs, is stopped, is busy or was never started.
C13_EnqueueReturns ==
    \A p \in Callers :
        (qpc[p] = "wait" /\ qdl[p] <= wait_timeout) ~> (qpc[p] = "done")

\* a caller whose request no worker ever took has got the timeout error, at
\* the end of its wait
C13_Witness ==
    \E p \in Callers :
        /\ qret[p].tag = "timeout"
        /\ now = wait_timeout
        /\ Len(reqs) > 0
        /\ \A r \in 1..Len(reqs) : reqs[r].runs = 0

\* C15: every request is executed at most once and its event is set at most
\* once, whatever start(), stop() and clear_queue() do meanwhile; the event
\* is set only after the execution, and a request whose execution the worker
\* has left behind has its event set exactly once.
C15_ExecutedOnceSignalledOnce ==
    \A r \in 1..Len(reqs) :
        /\ reqs[r].runs <= 1
        /\ reqs[r].sets <= reqs[r].runs
        /\ reqs[r].event <=> reqs[r].sets = 1
        /\ (reqs[r].runs = 1 /\ \A w \in Workers : wreq[w] # r)
           => reqs[r].sets = 1

\* C16: when clear_queue() returns the backlog is empty: no request put
\* before is still on the queue, to be executed later, and get_stats()
\* reports a queue size of 0.
C16_ClearDiscardsBacklog ==
    [][\A p \in Callers :
          (qop[p] = "clear" /\ qpc'[p] = "done")
          => /\ queue' = <<>>
             /\ QueueStatsOf'.queue_size = 0]_vars

\* C17, for the queue: clear_queue() called by a thread while no call is
\* pending (the other callers have never called, its own calls are over
\* and the queue is empty) leaves the stats at their initial values: total, successful and failed
\* counts 0 and queue size 0.
C17_ClearLeavesFreshStats ==
    [][\A p \in Callers :
          ( /\ qop[p] = "clear"
            /\ qpc'[p] = "done"
            /\ queue = <<>>
            /\ \A q \in Callers \ {p} : qpc[q] = "idle" )
          => /\ QueueStatsOf'.total_requests = 0
             /\ QueueStatsOf'.successful_requests = 0
             /\ QueueStatsOf'.failed_requests = 0
             /\ QueueStatsOf'.queue_size = 0]_vars

\* two requests, both executed and signalled once, with a stop() or a
\* clear_queue() in the history and two worker threads created
C15_Witness ==
    /\ Len(reqs) = 2
    /\ \A r \in 1..2 : reqs[r].runs = 1 /\ reqs[r].sets = 1
    /\ adminOps > 0
    /\ Spawned = 2

----------------------------------------------------------------------------
(* The pipeline: callers of the data endpoints of services.py.  An         *)
(* endpoint decorated with queued_api_call is run by the queue worker, the *)
(* others run in the thread of the caller; every endpoint is wrapped by    *)
(* cached_api_call around api_request_with_rotation(API_POOL) around the   *)
(* raw fetch.  Nobody calls stop() or clear_queue() here, so a worker       *)
(* thread never leaves its loop.                                           *)

\* the endpoints carrying @queued_api_call
Queued(e) ==
    Endpoints[e] \in {"get_rt_last24h", "get_rt_range", "get_day_ahead_by_date",
                      "get_pjm_load_actual", "get_pjm_load_forecast"}

\* the endpoints the callers of the pipeline specification ask for
PipeEndpoints == {1, 3, 4}

\* a caller invokes an endpoint that is not queued: cached_api_call.wrapper
\* runs in its thread
FetchDirect(p, e) ==
    /\ ~Queued(e)
    /\ calls < MaxCalls
    /\ calls' = calls + 1
    /\ UNCHANGED <<sel, fp>>
    /\ qpc[p] \in {"idle", "done"}
    /\ WrapperCall(p, e)
    /\ UNCHANGED <<now, pvars, qvars, rvars>>

\* a caller invokes a queued endpoint: queued_api_call.wrapper
FetchQueued(p, e) ==
    /\ Queued(e)
    /\ calls < MaxCalls
    /\ calls' = calls + 1
    /\ UNCHANGED <<sel, fp>>
    /\ cpc[p] \in {"idle", "done"}
    /\ QueuedCallEnter(p, e)
    /\ UNCHANGED <<now, cvars, pvars, rvars>>

\* _process_queue, line 61: request.func is cached_api_call.wrapper, which
\* the worker thread enters
WorkerCalls(w) ==
    /\ wpc[w] = "exec"
    /\ cpc[w] = "idle"
    /\ CachedCall(w, reqs[wreq[w]].func)

\* _process_queue, lines 61-71: cached_api_call.wrapper has returned to the
\* worker or raised
WorkerFuncEnds(w) ==
    /\ wpc[w] = "exec"
    /\ cpc[w] = "done"
    /\ IF cret[w].tag = "raise"
       THEN WorkerFuncRaises(w)
       ELSE WorkerFuncReturns(w, cret[w].val)
    /\ cpc' = [cpc EXCEPT ![w] = "idle"]
    /\ cret' = [cret EXCEPT ![w] = NoRet]
    /\ cstale' = [cstale EXCEPT ![w] = None]
    /\ UNCHANGED <<cache, locks, gen, held, ckey, cget, clk, cres, cstart,
                   anyStart, okStart>>
    /\ UNCHANGED <<now, pvars, rvars, calls, sel, fp>>

\* cached_api_call.wrapper, lines 89-97: func is the retry wrapper
RecheckThenFetch(t) ==
    /\ WrapperRecheck(t)
    /\ IF cpc'[t] = "func" THEN RetryEnter(t) ELSE UNCHANGED rvars
    /\ UNCHANGED <<now, pvars, qvars, calls, sel, fp>>

\* what cached_api_call.wrapper does when the retry wrapper has returned
\* or raised in this step
FuncEnds(t) ==
    IF rpc'[t] # "done" THEN UNCHANGED cvars
    ELSE IF rret'[t].tag = "value"
         THEN WrapperFuncReturns(t, rret'[t].val)
         ELSE WrapperFuncRaises(t)

\* api_request_with_rotation.wrapper, line 201: pool.get_next_key()
Select(t, r) ==
    /\ rpc[t] = "select"
    /\ PoolGetNextKey(t, 1, r)
    /\ RetryGotKey(t, r)
    /\ FuncEnds(t)
    /\ UNCHANGED <<now, qvars, calls, sel, fp>>

\* get_next_key sleeps in _wait_for_cooldown, holding the lock of the pool.
\* The sleep lasts until a cooldown ends, at least cooldown after the first
\* report of a rate limit, which is beyond the MaxPipeSeconds this
\* specification follows; the end of the sleep is part of SpecPool.
SelectSleeps(t) ==
    /\ rpc[t] = "select"
    /\ PoolSleep(t, 1)
    /\ UNCHANGED <<now, cvars, qvars, rvars, calls, sel, fp>>

\* the raw fetch (requests.get, raise_for_status, json) ends with o
FetchEnds(t, o) ==
    /\ RetryFetchEnds(t, o)
    /\ FuncEnds(t)
    /\ UNCHANGED <<now, pvars, qvars, calls, sel, fp>>

\* the outcome of the attempt is reported to the pool
Report(t) ==
    /\ RetryReport(t)
    /\ FuncEnds(t)
    /\ UNCHANGED <<now, qvars, calls, sel, fp>>

\* the backoff sleep is over
BackoffEnds(t) ==
    /\ RetryBackoffEnds(t)
    /\ UNCHANGED <<now, cvars, pvars, qvars, calls, sel, fp>>

\* the times at which a sleep or a cooldown of the pipeline ends
PipeDeadlines ==
    QueueDeadlines
    \cup {rwake[t] : t \in {u \in Procs : rpc[u] = "backoff"}}
    \cup {pwake[t] : t \in {u \in Procs : ppc[u] = "sleep"}}
    \cup {pools[1].ks[i].rate_limited_until : i \in CoolingKeys(pools[1])}

\* the clock of the pipeline specification moves to the next such time
PipeTick ==
    /\ \E d \in PipeDeadlines : d > now
    /\ now' = Min({d \in PipeDeadlines : d > now})
    /\ now' <= MaxPipeSeconds * 2
    /\ UNCHANGED <<cvars, pvars, qvars, rvars, calls, sel, fp>>

NextPipe ==
    \/ \E p \in Callers, e \in PipeEndpoints : FetchDirect(p, e)
    \/ \E p \in Callers, e \in PipeEndpoints : FetchQueued(p, e)
    \/ \E p \in Callers : SetRunning(p)
    \/ \E p \in Callers : SpawnWorker(p)
    \/ \E p \in Callers : Put(p)
    \/ \E p \in Callers : WaitReturns(p)
    \/ \E w \in Workers : Take(w)
    \/ \E w \in Workers : WorkerCalls(w)
    \/ \E w \in Workers : WorkerFuncEnds(w)
    \/ \E w \in Workers : Complete(w)
    \/ \E w \in Workers : Wake(w)
    \/ \E t \in Procs : GetLock(t)
    \/ \E t \in Procs : AcquireKeyLock(t)
    \/ \E t \in Procs : RecheckThenFetch(t)
    \/ \E t \in Procs : StoreResult(t)
    \/ \E t \in Procs, r \in Creds \cup {Exhausted} : Select(t, r)
    \/ \E t \in Procs : SelectSleeps(t)
    \/ \E t \in Procs, o \in FetchOutcomes : FetchEnds(t, o)
    \/ \E t \in Procs : Report(t)
    \/ \E t \in Procs : BackoffEnds(t)
    \/ PipeTick
SpecPipe == Init /\ [][NextPipe]_vars

\* C5: at most one raw upstream fetch is in flight, across all callers,
\* the queue workers and all data endpoints.
C5_OneFetchInFlight ==
    Cardinality({t \in Procs : rpc[t] = "fetch"}) <= 1

\* the worker that took request r has invoked request.func (line 61)
ExecutionStarted(r) ==
    \/ reqs[r].event
    \/ \E w \in Workers :
          wreq[w] = r /\ (cpc[w] # "idle" \/ wpc[w] = "total")

\* C14: queued calls start executing in the order in which they were put
\* on the queue (the order of reqs): when the execution of a request has
\* started, the execution of every request put before it has started too.
C14_FifoExecution ==
    \A x, y \in 1..Len(reqs) :
        (x < y /\ ExecutionStarted(y)) => ExecutionStarted(x)

----------------------------------------------------------------------------
(* The retry wrapper on its own: threads call a function decorated with    *)
(* api_request_with_rotation(API_POOL, max_retries=3) while the pool is    *)
(* reset through reset_api_pool                                            *)

\* a thread calls the decorated function
CallFetch(t) ==
    /\ calls < MaxCalls
    /\ calls' = calls + 1
    /\ UNCHANGED <<sel, fp>>
    /\ RetryEnter(t)
    /\ UNCHANGED <<now, cvars, pvars, qvars>>

\* wrapper, line 201: pool.get_next_key() on the pool of the decorator
PickKey(t, r) ==
    /\ rpc[t] = "select"
    /\ PoolGetNextKey(t, 1, r)
    /\ RetryGotKey(t, r)
    /\ UNCHANGED <<now, cvars, qvars, calls, sel, fp>>

\* get_next_key sleeps in _wait_for_cooldown
PickSleeps(t) ==
    /\ rpc[t] = "select"
    /\ PoolSleep(t, 1)
    /\ UNCHANGED <<now, cvars, qvars, rvars, calls, sel, fp>>

\* the sleep is over and get_next_key returns or raises
PickWakes(t, r) ==
    /\ rpc[t] = "select"
    /\ PoolWake(t, r)
    /\ RetryGotKey(t, r)
    /\ UNCHANGED <<now, cvars, qvars, calls, sel, fp>>

\* the raw fetch ends with o
RawFetchEnds(t, o) ==
    /\ RetryFetchEnds(t, o)
    /\ UNCHANGED <<now, cvars, pvars, qvars, calls, sel, fp>>

\* the outcome of the attempt is reported to the pool of the decorator
ReportOutcome(t) ==
    /\ RetryReport(t)
    /\ UNCHANGED <<now, cvars, qvars, calls, sel, fp>>

\* the backoff sleep is over
BackoffOver(t) ==
    /\ RetryBackoffEnds(t)
    /\ UNCHANGED <<now, cvars, pvars, qvars, calls, sel, fp>>

\* reset_api_pool(strategy)
ResetApiPool(st) ==
    /\ ResetEffect(st)
    /\ UNCHANGED <<now, cvars, qvars, rvars, calls, sel, fp>>

\* the times at which a sleep or a cooldown ends
RetryDeadlines ==
    {rwake[t] : t \in {u \in Procs : rpc[u] = "backoff"}}
    \cup {pwake[t] : t \in {u \in Procs : ppc[u] = "sleep"}}
    \cup {pools[1].ks[i].rate_limited_until : i \in CoolingKeys(pools[1])}

\* the clock moves to the next such time
RetryTick ==
    /\ \E d \in RetryDeadlines : d > now
    /\ now' = Min({d \in RetryDeadlines : d > now})
    /\ now' <= MaxRetrySeconds * 2
    /\ UNCHANGED <<cvars, pvars, qvars, rvars, calls, sel, fp>>

NextRetry ==
    \/ \E t \in Callers : CallFetch(t)
    \/ \E t \in Callers, r \in Creds \cup {Exhausted} : PickKey(t, r)
    \/ \E t \in Callers : PickSleeps(t)
    \/ \E t \in Callers, r \in Creds \cup {Exhausted} : PickWakes(t, r)
    \/ \E t \in Callers, o \in FetchOutcomes : RawFetchEnds(t, o)
    \/ \E t \in Callers : ReportOutcome(t)
    \/ \E t \in Callers : BackoffOver(t)
    \/ \E st \in Strategies : ResetApiPool(st)
    \/ RetryTick
SpecRetry == Init /\ [][NextRetry]_vars

----------------------------------------------------------------------------
(* get_next_key statement by statement: threads select from pool 1 while   *)
(* credentials are deactivated; no credential is rate limited              *)

notSel == <<now, cvars, qvars, rvars, calls, fp>>
poolRest == <<API_POOL, ppc, ppool, pwake, selLog, penalties, window>>

\* an acquisition that does not wait for the lock to be free
AcquireLockUnguarded(p) ==
    /\ sel[p].pc = "idle"
    /\ TotalRequests(pools[1]) + Cardinality({t \in Callers : sel[t].pc # "idle"})
          < MaxSelects
    /\ plock' = [plock EXCEPT ![1] = p]
    /\ sel' = [sel EXCEPT ![p].pc = "filter"]
    /\ UNCHANGED <<pools, poolRest, notSel>>

\* line 37: with self.lock
AcquireLock(p) ==
    /\ sel[p].pc = "idle"
    /\ plock[1] = 0
    /\ TotalRequests(pools[1]) + Cardinality({t \in Callers : sel[t].pc # "idle"})
          < MaxSelects
    /\ plock' = [plock EXCEPT ![1] = p]
    /\ sel' = [sel EXCEPT ![p].pc = "filter"]
    /\ UNCHANGED <<pools, poolRest, notSel>>

\* lines 39-56: available_keys = self._get_available_keys(); with none
\* available (and, no deadline pending, no sleep) the second pass finds
\* none and the call raises, which releases the lock
FilterKeys(p) ==
    /\ sel[p].pc = "filter"
    /\ pools' = [pools EXCEPT ![1] = AfterFilter(@)]
    /\ IF AvailableKeys(pools[1]) = {}
       THEN /\ ~Sleeps(AfterFilter(pools[1]))
            /\ sel' = [sel EXCEPT ![p] = [NoLocals EXCEPT !.done = sel[p].done]]
            /\ plock' = [plock EXCEPT ![1] = 0]
       ELSE /\ sel' = [sel EXCEPT ![p].pc = "choose",
                                  ![p].avail = AvailableKeys(pools[1])]
            /\ UNCHANGED plock
    /\ UNCHANGED <<poolRest, notSel>>

\* lines 58-65 and the first statement of the strategy: random.choice,
\* min(available_keys, key=request_count), or the round-robin loop
ChooseStrategy(p) ==
    /\ sel[p].pc = "choose"
    /\ CASE pools[1].strategy = "random" ->
              \E i \in sel[p].avail :
                  sel' = [sel EXCEPT ![p].pc = "stamp", ![p].key = i]
         [] pools[1].strategy = "least_used" ->
              sel' = [sel EXCEPT ![p].pc = "stamp",
                        ![p].key = LeastUsedPick(pools[1], sel[p].avail).key]
         [] OTHER -> sel' = [sel EXCEPT ![p].pc = "cursor", ![p].turns = 0]
    /\ UNCHANGED <<pools, plock, poolRest, notSel>>

\* lines 93-94: the next iteration of `for _ in range(len(self.keys_stats))`
\* reads self.current_index; after the last iteration, lines 103-104:
\* key_stat = available_keys[0]
ReadCursor(p) ==
    /\ sel[p].pc = "cursor"
    /\ IF sel[p].turns < MaxCreds
       THEN sel' = [sel EXCEPT ![p].pc = "advance",
                               ![p].idx = pools[1].current_index,
                               ![p].turns = @ + 1]
       ELSE sel' = [sel EXCEPT ![p].pc = "stamp",
                               ![p].key = Min(sel[p].avail)]
    /\ UNCHANGED <<pools, plock, poolRest, notSel>>

\* lines 95-97: self.current_index += 1; if current_key in available_keys
AdvanceCursor(p) ==
    /\ sel[p].pc = "advance"
    /\ pools' = [pools EXCEPT ![1].current_index = @ + 1]
    /\ IF AtCursor(sel[p].idx) \in sel[p].avail
       THEN sel' = [sel EXCEPT ![p].pc = "stamp", ![p].key = AtCursor(sel[p].idx)]
       ELSE sel' = [sel EXCEPT ![p].pc = "cursor"]
    /\ UNCHANGED <<plock, poolRest, notSel>>

\* key_stat.last_used = datetime.now(), and the read of `request_count += 1`
StampKey(p) ==
    /\ sel[p].pc = "stamp"
    /\ pools' = [pools EXCEPT ![1].ks[sel[p].key].last_used = now]
    /\ sel' = [sel EXCEPT ![p].pc = "count",
                           ![p].cnt = pools[1].ks[sel[p].key].request_count]
    /\ UNCHANGED <<plock, poolRest, notSel>>

\* the write of `key_stat.request_count += 1`
CountKey(p) ==
    /\ sel[p].pc = "count"
    /\ pools' = [pools EXCEPT ![1].ks[sel[p].key].request_count = sel[p].cnt + 1]
    /\ sel' = [sel EXCEPT ![p].pc = "return"]
    /\ UNCHANGED <<plock, poolRest, notSel>>

\* return key_stat.key, which leaves the with block
ReturnKey(p) ==
    /\ sel[p].pc = "return"
    /\ plock' = [plock EXCEPT ![1] = 0]
    /\ sel' = [sel EXCEPT ![p] = [NoLocals EXCEPT !.done = sel[p].done + 1]]
    /\ UNCHANGED <<pools, poolRest, notSel>>

NextSelect ==
    \/ \E p \in Callers : AcquireLock(p)
    \/ \E p \in Callers : FilterKeys(p)
    \/ \E p \in Callers : ChooseStrategy(p)
    \/ \E p \in Callers : ReadCursor(p)
    \/ \E p \in Callers : AdvanceCursor(p)
    \/ \E p \in Callers : StampKey(p)
    \/ \E p \in Callers : CountKey(p)
    \/ \E p \in Callers : ReturnKey(p)
    \/ \E p \in Callers, i \in Creds : DeactivateKey(p, i)
SpecSelect == InitPool /\ [][NextSelect]_vars

\* The calls of the wrapper followed to their end: every selection of the
\* MaxCalls calls is followed, the clock has no horizon, the pool is not
\* reset.
TryKey(t, r) ==
    /\ rpc[t] = "select"
    /\ PoolSelect(t, 1, r)
    /\ RetryGotKey(t, r)
    /\ UNCHANGED <<now, cvars, qvars, calls, sel, fp>>

TrySleeps(t) ==
    /\ rpc[t] = "select"
    /\ PoolBlock(t, 1)
    /\ UNCHANGED <<now, cvars, qvars, rvars, calls, sel, fp>>

RetryFreeTick ==
    /\ \E d \in RetryDeadlines : d > now
    /\ now' = Min({d \in RetryDeadlines : d > now})
    /\ UNCHANGED <<cvars, pvars, qvars, rvars, calls, sel, fp>>

\* one outcome of each kind
LiveOutcomes ==
    {[kind |-> "value", val |-> 1], [kind |-> "429", val |-> NoHint]}
    \cup {[kind |-> e, val |-> None] : e \in {"403", "http", "other"}}

\* the next step of thread t inside the wrapper
WrapperStep(t) ==
    \/ \E r \in Creds \cup {Exhausted} : TryKey(t, r)
    \/ TrySleeps(t)
    \/ \E r \in Creds \cup {Exhausted} : PickWakes(t, r)
    \/ \E o \in LiveOutcomes : RawFetchEnds(t, o)
    \/ ReportOutcome(t)
    \/ BackoffOver(t)

NextRetryLive ==
    \/ \E t \in Callers : CallFetch(t)
    \/ \E t \in Callers, r \in Creds \cup {Exhausted} : TryKey(t, r)
    \/ \E t \in Callers : TrySleeps(t)
    \/ \E t \in Callers, r \in Creds \cup {Exhausted} : PickWakes(t, r)
    \/ \E t \in Callers, o \in LiveOutcomes : RawFetchEnds(t, o)
    \/ \E t \in Callers : ReportOutcome(t)
    \/ \E t \in Callers : BackoffOver(t)
    \/ RetryFreeTick

\* time passes, and a thread that can take its next step takes it: the
\* wrapped function returns or raises, a sleep ends, a free lock is taken
RetryFairness ==
    /\ WF_vars(RetryFreeTick)
    /\ \A t \in Callers : WF_vars(WrapperStep(t))
SpecRetryLive == Init /\ [][NextRetryLive]_vars /\ RetryFairness

----------------------------------------------------------------------------
(* Claims about the retry wrapper and reset_api_pool                       *)

\* thread t is in a step in which its get_next_key call ends without having
\* slept
SelectionEnds(t) ==
    /\ rpc[t] = "select"
    /\ ppc[t] = "idle"
    /\ ppc'[t] = "idle"
    /\ <<rpc[t], rattempt[t]>>' # <<rpc[t], rattempt[t]>>

\* C18: after reset_api_pool, a fetch that started afterwards selects its
\* credentials from the new pool: when the pool that services.API_POOL
\* names has available credentials, the selection returns one of them and
\* the request count that get_stats of that pool reports for it grows by one.
C18_FetchAfterResetUsesNewPool ==
    [][\A t \in Callers :
          ( /\ SelectionEnds(t)
            /\ API_POOL # 1
            /\ rseen[t] = API_POOL
            /\ AvailableKeys(pools[API_POOL]) # {} )
          => /\ rpc'[t] = "fetch"
             /\ rkey'[t] \in AvailableKeys(pools[API_POOL])
             /\ StatsOf(pools'[API_POOL]).keys[rkey'[t]].requests
                   = StatsOf(pools[API_POOL]).keys[rkey'[t]].requests + 1]_vars

\* the cooldown that a 429 with Retry-After header h (seconds) asks for, in
\* half seconds; the default cooldown when there is no header
HintedCooldown(h) == IF h = NoHint THEN cooldown ELSE h * 2

\* C19: when an attempt fails with HTTP 429, the report of the wrapper sets
\* the deadline of the credential used in the attempt to now + hint (now +
\* the default cooldown without a hint), adds one to its failure counter and
\* leaves its active flag as it is; and the next attempt of the call that
\* gets a credential gets a different one.
C19_RateLimitReport ==
    [][\A t \in Callers :
          /\ ( /\ rpc[t] = "report"
               /\ rout[t].kind = "429"
               /\ rpc'[t] # "report" )
             => LET K == pools[1].ks[rkey[t]]
                    L == pools'[1].ks[rkey[t]] IN
                /\ L.rate_limited_until = now + HintedCooldown(rout[t].val)
                /\ L.consecutive_failures = K.consecutive_failures + 1
                /\ L.is_active = K.is_active
          /\ ( /\ rpc[t] = "select"
               /\ rlast[t] = "429"
               /\ rpc'[t] = "fetch" )
             => rkey'[t] # rkey[t]]_vars

\* thread t is in a step in which its raw fetch ends with an error that is
\* neither a 429 nor a 403
OtherFailure(t) ==
    /\ rpc[t] = "fetch"
    /\ rpc'[t] \notin {"fetch", "report"}

\* C21 as stated: after an attempt that failed with an error other than 429
\* and 403 the wrapper retries while attempts remain, and the pool is left
\* as it was.
C21_OtherErrorsRetried ==
    [][\A t \in Callers :
          OtherFailure(t)
          => /\ pools' = pools
             /\ rattempt[t] < max_retries - 1
                => rpc'[t] \in {"backoff", "select"}]_vars

\* C21, amended: after an attempt that failed with a non-HTTP error the
\* wrapper retries while attempts remain (after the backoff sleep) and raises
\* the error when the attempt was the last; after an attempt that failed
\* with another HTTP status error it does not retry and raises that error;
\* in all these cases the pool is left as it was.
C21_OtherErrorsNoPenalty ==
    [][\A t \in Callers :
          OtherFailure(t)
          => /\ pools' = pools
             /\ \/ /\ rpc'[t] = "backoff"
                   /\ rlast'[t] = "other"
                   /\ rattempt[t] < max_retries - 1
                   /\ rattempt'[t] = rattempt[t]
                \/ /\ rpc'[t] = "done"
                   /\ rret'[t] = [tag |-> "raise", val |-> "other"]
                   /\ rattempt[t] = max_retries - 1
                \/ /\ rpc'[t] = "done"
                   /\ rret'[t] = [tag |-> "raise", val |-> "http"]]_vars

\* one thread sleeps in the backoff after a non-HTTP error, another has
\* left the wrapper with an HTTP status error after its first attempt, and
\* the credentials they used carry no penalty
C21_Witness ==
    \E t, u \in Callers :
        /\ rpc[t] = "backoff" /\ rlast[t] = "other"
        /\ rpc[u] = "done" /\ rret[u] = [tag |-> "raise", val |-> "http"]
        /\ TotalRequests(pools[1]) = 2
        /\ \A i \in Creds :
              /\ pools[1].ks[i].is_active
              /\ pools[1].ks[i].rate_limited_until = NoTime
              /\ pools[1].ks[i].consecutive_failures = 0

\* C22: between two consecutive attempts of a call the wrapper sleeps for
\* 2^attempt seconds, whatever made the earlier attempt fail: the step that
\* begins the next attempt is taken from the backoff sleep, when the sleep
\* is over.
C22_BackoffBetweenAttempts ==
    [][\A t \in Callers :
          rattempt'[t] = rattempt[t] + 1
          => /\ rpc[t] = "backoff"
             /\ now >= rwake[t]]_vars

\* C23: one call of the wrapper obtains at most max_retries credentials
\* from the pool, invokes the wrapped function at most max_retries times
\* (once with each credential obtained), and comes to an end whatever the
\* outcomes of its attempts are.
C23_BoundedAttemptsAndTermination ==
    /\ [](\A t \in Callers :
            /\ rpicks[t] <= max_retries
            /\ rattempt[t] < max_retries
            /\ rpicks[t] <= rattempt[t] + 1)
    /\ \A t \in Callers : (rpc[t] \notin {"idle", "done"}) ~> (rpc[t] = "done")

\* a single call was made; it obtained max_retries credentials, all its
\* attempts failed, and it has ended by raising
C23_Witness ==
    \E t \in Callers :
        /\ calls = 1
        /\ rpc[t] = "done"
        /\ rret[t].tag = "raise"
        /\ TotalRequests(pools[1]) = max_retries

\* C24: the wrapper returns a value only in the step that reports a
\* successful attempt, and the value is that attempt's result; it is left
\* in every other way by raising the error of the attempt that just failed:
\* the reported 429 or 403, the other error of the raw fetch, or the pool's
\* exhaustion error when get_next_key raised, which is the error raised
\* when no attempt of the call obtained a credential.
C24_ReturnsOnlySuccess ==
    [][\A t \in Callers :
          (rpc[t] # "done" /\ rpc'[t] = "done")
          => \/ /\ rpc[t] = "report"
                /\ rout[t].kind = "value"
                /\ rret'[t] = [tag |-> "value", val |-> rout[t].val]
             \/ /\ rpc[t] = "report"
                /\ rout[t].kind # "value"
                /\ rret'[t] = [tag |-> "raise", val |-> rout[t].kind]
             \/ /\ rpc[t] = "fetch"
                /\ rret'[t].tag = "raise"
                /\ rret'[t].val \in {"http", "other"}
             \/ /\ rpc[t] = "select"
                /\ rret'[t] = [tag |-> "raise", val |-> "exhausted"]]_vars

\* thread u obtained both credentials, which are now unusable, and is
\* still inside its call; thread t obtained none in its attempts and its
\* call has ended with the exhaustion error
C24_Witness ==
    \E t, u \in Callers :
        /\ rpc[u] \notin {"idle", "done"}
        /\ rpicks[u] = 2
        /\ TotalRequests(pools[1]) = 2
        /\ rpc[t] = "done"
        /\ rret[t] = [tag |-> "raise", val |-> "exhausted"]

\* thread t is inside get_next_key of the wrapper's pool: asleep, or about
\* to take the lock
InGetNextKey(t) == rpc[t] = "select"

\* C25: get_next_key always comes to an end.  The credential it returns is
\* active and carries no unexpired deadline when it is returned; a sleep
\* is no longer than the cooldown; and the call that slept returns or
\* raises when the sleep is over, without a second sleep.
C25_SelectTerminates ==
    /\ [][\A t \in Callers :
            /\ (rpc[t] = "select" /\ rpc'[t] = "fetch")
               => LET K == pools'[1].ks[rkey'[t]] IN
                  /\ K.is_active
                  /\ K.rate_limited_until = NoTime
                  /\ pools[1].ks[rkey'[t]].is_active
                  /\ \/ pools[1].ks[rkey'[t]].rate_limited_until = NoTime
                     \/ pools[1].ks[rkey'[t]].rate_limited_until <= now
            /\ (ppc[t] # "sleep" /\ ppc'[t] = "sleep")
               => /\ pwake'[t] > now
                  /\ pwake'[t] - now <= cooldown
            /\ (ppc[t] = "sleep" /\ ppc'[t] # "sleep")
               => /\ now >= pwake[t]
                  /\ rpc'[t] # "select"
                  /\ plock'[1] = 0]_vars
    /\ \A t \in Callers : InGetNextKey(t) ~> ~InGetNextKey(t)

\* a thread sleeps in get_next_key, for less than the cooldown, while all
\* credentials are cooling down
C25_Witness ==
    \E t \in Callers :
        /\ ppc[t] = "sleep"
        /\ rpc[t] = "select"
        /\ pwake[t] > now
        /\ pwake[t] - now < cooldown
        /\ CoolingKeys(pools[1]) = Creds

\* the credentials of pool P that are rate limited and still active
ActiveCooling(P) == {i \in CoolingKeys(P) : P.ks[i].is_active}

\* the wait that C26 describes: the minimum remaining cooldown among the
\* credentials that are rate limited and still active, but no more than
\* the cooldown constant
ClaimedWait(P) ==
    IF ActiveCooling(P) = {} THEN 0
    ELSE Min({cooldown} \cup
             {P.ks[i].rate_limited_until - now : i \in ActiveCooling(P)})

\* C26: when no credential is available, get_next_key blocks for the
\* minimum remaining cooldown among the rate limited, active credentials,
\* capped at the cooldown constant: a call that goes to sleep sleeps for
\* that time, and a call raises the exhaustion error without having slept
\* only when there is nothing to wait for.  (Steps in which the earliest
\* deadline is exactly one cooldown away are left aside.)
C26_BlocksForMinimumCooldown ==
    [][\A t \in Callers :
          /\ ( /\ SelectionEnds(t)
               /\ rpc'[t] # "fetch"
               /\ WaitTime(pools[1]) # cooldown )
             => ActiveCooling(pools[1]) = {}
          /\ ( /\ rpc[t] = "select"
               /\ ppc[t] # "sleep"
               /\ ppc'[t] = "sleep" )
             => pwake'[t] - now = ClaimedWait(pools[1])]_vars

----------------------------------------------------------------------------
(* Claims about concurrent selections                                      *)

\* the selections that have returned a credential
Returned ==
    LET RECURSIVE sum(_)
        sum(n) == IF n = 0 THEN 0 ELSE sel[n].done + sum(n - 1)
    IN sum(MaxCallers)

\* the selections that have counted their credential and not yet returned
Returning == Cardinality({t \in Callers : sel[t].pc = "return"})

\* C27: under any interleaving of concurrent get_next_key calls every
\* selection adds exactly one to the request count of the credential it
\* returns: the request counts sum up to the number of selections that
\* have returned a credential (or are about to return it), a selection
\* raises the count it read by one, and the cursor position a round-robin
\* selection has read is consumed by that selection alone: when it moves
\* the cursor on, the cursor is still where it read it.
C27_SelectionsCountedOnce ==
    /\ [](TotalRequests(pools[1]) = Returned + Returning)
    /\ [][\A t \in Callers :
            /\ (sel[t].pc = "count" /\ sel'[t].pc = "return")
               => pools'[1].ks[sel[t].key].request_count
                    = pools[1].ks[sel[t].key].request_count + 1
            /\ (sel[t].pc = "advance" /\ sel'[t].pc # "advance")
               => pools'[1].current_index = sel[t].idx + 1]_vars

\* MaxSelects selections of a round-robin pool have returned, some made by
\* each thread; the counts sum up to MaxSelects and the cursor has moved
\* by one position for each
C27_Witness ==
    /\ pools[1].strategy = "round_robin"
    /\ Returned = MaxSelects
    /\ \A t \in Callers : sel[t].done > 0
    /\ pools[1].current_index = MaxSelects
    /\ TotalRequests(pools[1]) = MaxSelects

----------------------------------------------------------------------------
(* Claims about the order of the layers                                    *)

\* C28: every fetch goes through the queue first: a thread is inside
\* cached_api_call.wrapper only when it is a queue worker executing a
\* request, and inside the retry wrapper (which makes the raw network
\* call) only while it is inside the func call of the cache wrapper.
C28_QueueThenCacheThenRetry ==
    \A t \in Procs :
        /\ cpc[t] # "idle" => (t \in Workers /\ wpc[t] = "exec")
        /\ rpc[t] \notin {"idle", "done"} => cpc[t] = "func"

\* C29: a fetch that is answered from a fresh cache entry leaves the pool
\* as it is: the step in which the cache wrapper returns a cached value
\* changes nothing of the pool and does not enter the retry wrapper; a
\* thread enters the retry wrapper only when the cache holds no fresh entry
\* for its key; and the pool changes only in steps of threads that are
\* inside the retry wrapper.
C29_CacheHitSparesPool ==
    [][/\ \A t \in Procs :
            /\ ( /\ cret'[t] # cret[t]
                 /\ cret'[t].tag \in {"hit", "hit_after_lock"} )
               => /\ pvars' = pvars
                  /\ rvars' = rvars
            /\ (rpc[t] \in {"idle", "done"} /\ rpc'[t] = "select")
               => \/ cache[ckey[t]] = NoEntry
                  \/ now - cache[ckey[t]][2] >= default_ttl
       /\ pools' # pools
          => \E t \in Procs : rpc[t] \in {"select", "report"}]_vars

\* two endpoint calls were made for one key; one fetched the data with one
\* selection from the pool, the other was answered from the cache, and the
\* pool has counted one request
C29_Witness ==
    \E t, u \in Procs :
        /\ calls = 2
        /\ cret[t].tag = "miss"
        /\ cret[u].tag \in {"hit", "hit_after_lock"}
        /\ TotalRequests(pools[1]) = 1

\* the requests built so far that no caller waits on
Orphan(r) == r \in 1..Len(reqs) /\ \A p \in Callers : qreq[p] # r

\* request r has been left behind by its caller: nobody waits on it and its
\* event is not set, so the wait on it ended with the timeout
Abandoned(r) == Orphan(r) /\ ~reqs[r].event

\* the number of places of the queue that hold request r
TimesQueued(r) == Cardinality({i \in 1..Len(queue) : queue[i] = r})

\* the worker threads that hold request r
Holders(r) == {w \in Workers : wreq[w] = r}

\* the worker keeps running: self.running holds and a worker thread is in
\* its loop, or asleep with an end of sleep that the clock followed reaches
KeepsRunning ==
    /\ running
    /\ \E w \in Workers :
          \/ wpc[w] \in {"loop", "exec", "total"}
          \/ wpc[w] = "sleep" /\ wwake[w] <= wait_timeout

\* the worker thread is scheduled: it is not held up for ever before a step
\* it can take
WorkerFairness ==
    \A w \in Workers :
        WF_vars(Take(w) \/ QueuedFuncReturns(w, 1) \/ Complete(w) \/ Wake(w))

\* C30: a queued call whose caller timed out while the call was waiting is
\* not removed from the queue.  The timeout leaves the queue and the request
\* as they are; the abandoned request is on the queue once, or in the hands
\* of one worker that executes it once; its execution is counted in the
\* statistics (successful or failed, then total), the worker keeps the
\* spacing after it, and its outcome reaches no caller: no caller returns in
\* the step that sets its event, nobody waits on it again, and a caller is
\* only ever given the outcome of the request it waits on.  While the worker
\* keeps running, the abandoned request is executed in the end.
C30_AbandonedCallStillExecuted ==
    /\ [](\A r \in 1..Len(reqs) :
             Abandoned(r)
             => /\ reqs[r].runs <= 1
                /\ reqs[r].sets = 0
                /\ \/ /\ reqs[r].runs = 0
                      /\ TimesQueued(r) = 1
                      /\ Holders(r) = {}
                   \/ /\ reqs[r].runs = 1
                      /\ TimesQueued(r) = 0
                      /\ Cardinality(Holders(r)) = 1)
    /\ [][/\ \A p \in Callers :
               (qpc[p] = "wait" /\ qpc'[p] = "done" /\ qret'[p].tag = "timeout")
               => /\ queue' = queue
                  /\ reqs' = reqs
                  /\ qstats' = qstats
                  /\ \A r \in 1..Len(reqs) :
                        (r = qreq[p] /\ ~reqs[r].event) => Abandoned(r)'
          /\ \A r \in 1..Len(reqs) :
               /\ Orphan(r) => Orphan(r)'
               /\ ( /\ Abandoned(r)
                    /\ \/ reqs'[r].result # reqs[r].result
                       \/ reqs'[r].error # reqs[r].error )
                  => /\ qstats'.successful_requests + qstats'.failed_requests
                        = qstats.successful_requests + qstats.failed_requests + 1
                     /\ qret' = qret
               /\ (Abandoned(r) /\ reqs'[r].event)
                  => /\ reqs'[r].runs = 1
                     /\ reqs'[r].sets = 1
                     /\ qstats'.total_requests = qstats.total_requests + 1
                     /\ qret' = qret
                     /\ \E w \in Workers :
                           /\ wreq[w] = r
                           /\ \/ /\ wpc'[w] = "sleep"
                                 /\ wwake'[w] = wstart[w] + interval
                              \/ /\ wpc'[w] = "loop"
                                 /\ now - wstart[w] >= interval
          /\ \A p \in Callers :
               (qret'[p] # qret[p] /\ qret'[p].tag \in {"value", "error"})
               => /\ qpc[p] = "wait"
                  /\ ~Orphan(qreq[p])
                  /\ reqs[qreq[p]].event]_vars
    /\ WorkerFairness
       => \A r \in 1..MaxRequests :
             [](( /\ Abandoned(r)
                  /\ []KeepsRunning )
                => <>( /\ r \in 1..Len(reqs)
                       /\ reqs[r].event
                       /\ reqs[r].runs = 1 ))

\* the caller of request 2 timed out while the worker was busy with request
\* 1; the worker has since executed request 2, counted it and gone to sleep
\* for the interval, and the caller still holds nothing but the timeout
C30_Witness ==
    /\ Len(reqs) = 2
    /\ Orphan(2)
    /\ reqs[2].event
    /\ reqs[2].runs = 1
    /\ \E p \in Callers : qret[p].tag = "timeout" /\ qpc[p] = "done"
    /\ qstats.total_requests = 2
    /\ \E w \in Workers : wpc[w] = "sleep"

----------------------------------------------------------------------------
(* Claims about locks, selection strategies and statistics                 *)

\* the threads inside the with block of cached_api_call.wrapper that hold
\* the lock object l
KeyLockHolders(l) ==
    {u \in Procs : cpc[u] \in {"recheck", "func", "set"} /\ clk[u] = l}

\* thread t stands before `with key_lock` and the lock object is held
WaitsForKeyLock(t) == cpc[t] = "acquire" /\ clk[t] \in held

\* thread t stands before a `with self.lock` of the pool (get_next_key or
\* one of the reports) and another thread holds that lock
WaitsForPoolLock(t) ==
    /\ rpc[t] \in {"select", "report"}
    /\ plock[1] \notin {0, t}

LockBlocked(t) == WaitsForKeyLock(t) \/ WaitsForPoolLock(t)

\* the threads that hold the lock thread t waits for
WaitsFor(t) ==
    (IF WaitsForKeyLock(t) THEN KeyLockHolders(clk[t]) ELSE {})
    \cup (IF WaitsForPoolLock(t) THEN {plock[1]} ELSE {})

\* following the holders of the locks waited for, from thread t, ends
\* within n steps at threads that wait for no lock
RECURSIVE EndsAtFreeThread(_, _)
EndsAtFreeThread(t, n) ==
    \/ ~LockBlocked(t)
    \/ /\ n > 0
       /\ WaitsFor(t) # {}
       /\ \A u \in WaitsFor(t) : EndsAtFreeThread(u, n - 1)

\* C31: no state of the pipeline is a deadlock.  Every held lock has its one
\* holder (a key lock: a thread inside the with block; the pool lock: the
\* thread asleep in _wait_for_cooldown, whose sleep has an end); locks are
\* taken in one order, key lock before pool lock: a thread that waits for a
\* key lock holds no lock, the holder of the pool lock waits for no lock;
\* and from every thread that waits for a lock the chain of holders ends at
\* a thread that waits for none.  The cache's global lock and the queue's
\* stats lock are taken and released inside one step, with no other lock
\* taken in between.
C31_NoDeadlock ==
    /\ \A l \in held : Cardinality(KeyLockHolders(l)) = 1
    /\ \A u \in Procs : cpc[u] \in {"recheck", "func", "set"} => clk[u] \in held
    /\ plock[1] # 0
       => /\ plock[1] \in Procs
          /\ ppc[plock[1]] = "sleep"
          /\ rpc[plock[1]] = "select"
          /\ pwake[plock[1]] - now <= cooldown
          /\ ~LockBlocked(plock[1])
    /\ \A t \in Procs :
          /\ WaitsForKeyLock(t)
             => /\ \A l \in held : t \notin KeyLockHolders(l)
                /\ plock[1] # t
                /\ rpc[t] \in {"idle", "done"}
          /\ EndsAtFreeThread(t, Cardinality(Procs))

\* a thread holds a key lock and waits for the pool lock, which the other
\* thread holds, asleep in _wait_for_cooldown inside its own key lock
C31_Witness ==
    \E t, u \in Procs :
        /\ t # u
        /\ WaitsForPoolLock(t)
        /\ KeyLockHolders(clk[t]) = {t}
        /\ plock[1] = u
        /\ ppc[u] = "sleep"
        /\ cpc[u] = "func"

\* the number of places from cursor value c on to credential i, in cyclic
\* pool order
CursorDistance(c, i) == ((i - 1) - c) % MaxCreds

\* C32: with strategy round_robin, a selection returns the available
\* credential nearest to the cursor in cyclic pool order, at the cursor or
\* after it (the unavailable ones before it are skipped), and leaves the
\* cursor at the place just past the credential returned.
C32_RoundRobinSkipsUnavailable ==
    [][\A i \in Creds :
          (Selected(i) /\ pools[1].strategy = "round_robin")
          => /\ i \in AvailableKeys(pools[1])
             /\ \A j \in AvailableKeys(pools[1]) :
                   CursorDistance(pools[1].current_index, i)
                   <= CursorDistance(pools[1].current_index, j)
             /\ pools'[1].current_index
                = pools[1].current_index
                  + CursorDistance(pools[1].current_index, i) + 1
             /\ pools'[1].current_index % MaxCreds = i % MaxCreds]_vars

\* credential 1 has never been returned although the cursor began at it:
\* it was unavailable and was skipped, and the credential after it has been
\* returned twice
C32_Witness ==
    /\ pools[1].strategy = "round_robin"
    /\ pools[1].ks[1].request_count = 0
    /\ pools[1].ks[2].request_count = 2
    /\ pools[1].current_index = 2 * MaxCreds

\* C33: with strategy least_used, a selection returns an available
\* credential whose request count is the smallest among the available
\* ones, and of several with that count the first in pool order.
C33_LeastUsedFirstMinimal ==
    [][\A i \in Creds :
          (Selected(i) /\ pools[1].strategy = "least_used")
          => /\ i \in AvailableKeys(pools[1])
             /\ \A j \in AvailableKeys(pools[1]) :
                   /\ pools[1].ks[i].request_count
                      <= pools[1].ks[j].request_count
                   /\ pools[1].ks[j].request_count
                      = pools[1].ks[i].request_count => i <= j
             /\ pools'[1].current_index = pools[1].current_index]_vars

\* three selections with every credential available throughout: the first
\* broke a tie for credential 1, the second took credential 2 with the
\* smaller count, the third broke the next tie for credential 1
C33_Witness ==
    /\ pools[1].strategy = "least_used"
    /\ penalties[1] = 0
    /\ pools[1].ks[1].request_count = 2
    /\ pools[1].ks[2].request_count = 1

\* C34: when an attempt of the retry wrapper succeeds, the success is
\* reported for the credential of that attempt: the credential the wrapper
\* holds is the one get_next_key returned to it in this attempt, the report
\* leaves that credential's consecutive_failures at 0 and changes nothing
\* else of it, and the records of the other credentials and the other pools
\* are as before.
C34_SuccessReportResetsOwnCounter ==
    [][\A t \in Procs :
          /\ (rpc[t] = "select" /\ rpc'[t] = "fetch")
             => /\ rkey'[t] \in Creds
                /\ Selected(rkey'[t])
          /\ (rpc[t] \in {"fetch", "report"} /\ rpc'[t] \in {"fetch", "report"})
             => rkey'[t] = rkey[t]
          /\ (rpc[t] = "report" /\ rout[t].kind = "value" /\ rpc'[t] = "done")
             => /\ rret'[t] = [tag |-> "value", val |-> rout[t].val]
                /\ pools'[1].ks[rkey[t]].consecutive_failures = 0
                /\ pools'[1].ks[rkey[t]]
                   = [pools[1].ks[rkey[t]] EXCEPT !.consecutive_failures = 0]
                /\ \A j \in Creds \ {rkey[t]} :
                      pools'[1].ks[j] = pools[1].ks[j]
                /\ \A x \in PoolIds \ {1} : pools'[x] = pools[x]]_vars

\* a credential carries a rate limit that has not expired and a failure
\* counter of 0: a thread marked it rate limited while another thread's
\* fetch with it was under way, and that thread's success report then reset
\* the counter
C34_Witness ==
    \E t \in Procs, i \in Creds :
        /\ rret[t].tag = "value"
        /\ pools[1].ks[i].rate_limited_until > now
        /\ pools[1].ks[i].consecutive_failures = 0
        /\ \E j \in Creds \ {i} : pools[1].ks[j].consecutive_failures > 0

\* the keyword arguments of a call as the dict Python builds from them
KwargsOf(c) == {c.kwargs[i] : i \in 1..Len(c.kwargs)}

\* two calls with the same operation name, the same positional arguments
\* and the same keyword arguments
SameRequest(c, d) ==
    /\ c.name = d.name
    /\ c.args = d.args
    /\ KwargsOf(c) = KwargsOf(d)

\* C35: the cache key is a function of the operation name, the positional
\* arguments and the keyword arguments, whatever the order in which the
\* keyword arguments are written: two such calls have the same cache key.
C35_KeyIgnoresKeywordOrder ==
    (fp.n = 2 /\ SameRequest(fp.call[1], fp.call[2]))
    => fp.key[1] = fp.key[2]

\* two calls with the same two keyword arguments, written in opposite
\* orders, were given one key
C35_Witness ==
    /\ fp.n = 2
    /\ SameRequest(fp.call[1], fp.call[2])
    /\ Len(fp.call[1].kwargs) = 2
    /\ fp.call[1].kwargs # fp.call[2].kwargs
    /\ fp.key[1] = fp.key[2]

\* C36: two calls that differ in the operation name, the positional
\* arguments or the keyword arguments have different cache keys.
C36_DistinctCallsDistinctKeys ==
    (fp.n = 2 /\ ~SameRequest(fp.call[1], fp.call[2]))
    => fp.key[1] # fp.key[2]

\* C37: a func that fails writes nothing to the cache.  The step in which
\* the wrapper learns that func raised leaves self.cache as it is; and an
\* entry is created or given a new timestamp only by the set() of a
\* wrapper whose func returned, with the value func returned.
C37_FailedFetchWritesNothing ==
    [][/\ \A t \in Procs :
             ( /\ cpc[t] = "func"
               /\ cpc'[t] = "done"
               /\ cret'[t].tag \in {"raise", "fallback"} )
             => cache' = cache
       /\ \A k \in Keys :
             (cache'[k] # cache[k] /\ cache'[k] # NoEntry)
             => \E t \in Procs :
                   /\ cpc[t] = "set"
                   /\ ckey[t] = k
                   /\ cache'[k] = <<cres[t], now>>
                   /\ cret'[t] = [tag |-> "miss", val |-> cres[t]]]_vars

\* the latest invocation of func, begun after the one that returned, has
\* raised and its call ended with the error; the entry of the cache is the
\* one the other call stored, with that call's value and time of storing
C37_Witness ==
    \E t, u \in Procs :
        /\ cret[t].tag = "raise"
        /\ cret[u].tag = "miss"
        /\ okStart[1] >= 0
        /\ anyStart[1] > okStart[1]
        /\ cache[1] = <<cret[u].val, anyStart[1]>>
        /\ \A v \in Procs : cpc[v] \notin {"func", "set"}

\* C38: self.lock is held for the whole of get_next_key, the sleep in
\* _wait_for_cooldown included.  The holder of the lock is the thread asleep
\* there; until its sleep is over and it goes on, no step changes the
\* credential records or anything else of the pool: the get_next_key,
\* mark_rate_limited, mark_success, deactivate_key and get_stats calls of
\* the other threads do not get past `with self.lock`.
C38_LockHeldThroughCooldownWait ==
    /\ [](\A x \in PoolIds :
             plock[x] # 0
             => /\ plock[x] \in Procs
                /\ ppc[plock[x]] = "sleep"
                /\ ppool[plock[x]] = x
                /\ \A t \in Procs \ {plock[x]} : ppc[t] # "sleep")
    /\ [][\A x \in PoolIds :
             plock[x] # 0
             => \/ /\ pools'[x] = pools[x]
                   /\ plock'[x] = plock[x]
                   /\ selLog'[x] = selLog[x]
                   /\ penalties'[x] = penalties[x]
                   /\ window'[x] = window[x]
                   /\ ppc' = ppc
                \/ /\ now >= pwake[plock[x]]
                   /\ ppc'[plock[x]] = "idle"
                   /\ plock'[x] = 0
                   /\ \A t \in Procs \ {plock[x]} : ppc'[t] = ppc[t]]_vars

\* a thread is asleep in _wait_for_cooldown with the lock, the end of its
\* sleep has come and the rate limit it waited for has expired: a filter
\* pass of any other call would clear it now
C38_Witness ==
    /\ plock[1] # 0
    /\ ppc[plock[1]] = "sleep"
    /\ pwake[plock[1]] > 0
    /\ now >= pwake[plock[1]]
    /\ \E i \in Creds : LimitExpired(pools[1], i)

\* the worker threads that exist and have not ended
AliveWorkers == {w \in Workers : wpc[w] \notin {"unborn", "dead"}}

\* the calls whose outcome is counted and whose total is not yet
Untotalled ==
    QueueStatsOf.successful_requests + QueueStatsOf.failed_requests
    - QueueStatsOf.total_requests

\* C39: with a single worker thread, in every state get_stats() can show,
\* successful_requests + failed_requests is total_requests or one more, the
\* one being the call the worker has counted as successful or failed and
\* not yet in the total; the two are equal whenever the worker is between
\* calls; and none of the three counters ever decreases.
C39_StatsCountersConsistent ==
    /\ [](Cardinality(AliveWorkers) <= 1
          => /\ Untotalled \in {0, 1}
             /\ Untotalled = 1 <=> \E w \in AliveWorkers : wpc[w] = "total"
             /\ (\A w \in AliveWorkers : wpc[w] \in {"loop", "sleep"})
                => Untotalled = 0)
    /\ [][/\ QueueStatsOf'.total_requests >= QueueStatsOf.total_requests
          /\ QueueStatsOf'.successful_requests
             >= QueueStatsOf.successful_requests
          /\ QueueStatsOf'.failed_requests
             >= QueueStatsOf.failed_requests]_vars

\* the one worker has executed a first call, successful and totalled, and
\* has counted the second as failed without having added it to the total
C39_Witness ==
    /\ Cardinality(AliveWorkers) = 1
    /\ Cardinality({w \in Workers : wpc[w] # "unborn"}) = 1
    /\ \E w \in AliveWorkers : wpc[w] = "total"
    /\ QueueStatsOf.total_requests = 1
    /\ QueueStatsOf.successful_requests = 1
    /\ QueueStatsOf.failed_requests = 1

\* C40: every dict get_stats() returns has available_keys <= active_keys <=
\* total_keys and available_keys + rate_limited_keys <= active_keys: a
\* credential counted as rate limited is not counted as available, and a
\* deactivated credential is counted in neither.
C40_StatsCountsOrdered ==
    \A x \in PoolIds :
        /\ StatsOf(pools[x]).available_keys <= StatsOf(pools[x]).active_keys
        /\ StatsOf(pools[x]).active_keys <= StatsOf(pools[x]).total_keys
        /\ StatsOf(pools[x]).available_keys + StatsOf(pools[x]).rate_limited_keys
           <= StatsOf(pools[x]).active_keys


====
